---- MODULE Spec2Model ----
(***************************************************************************)
(* Real-time chat backend: connection registry and presence broadcast      *)
(* (config/socket.ts), and the HTTP controllers that persist chats and     *)
(* messages and fan events out (controllers/chat.ts).                      *)
(*                                                                         *)
(* The server is a single event loop.  A handler runs without interruption *)
(* from one await to the next, so every action below is one such segment:  *)
(* the awaited storage or collaborator call takes effect, and the          *)
(* synchronous code that follows it runs up to the next await.             *)
(***************************************************************************)
EXTENDS Integers, Sequences, FiniteSets, TLC

(***************************************************************************)
(* Bounds of the model.                                                    *)
(***************************************************************************)
MaxSockets == 2
MaxOps == 2
MaxSends == 1
MaxMsgs == 3
MaxChats == 2
MaxRooms == 1

Users == {"u1", "u2"}
Emojis == {"like", "heart"}
Procs == {"p1", "p2"}

\* A handshake without a userId, and the literal string a client sends when
\* it serialises an undefined userId.
NoUserId == ""
UndefinedStr == "undefined"
HandshakeIds == Users \cup {NoUserId, UndefinedStr}

\* undefined / null where an id (of a socket, a chat or a message) is expected.
None == 0
SocketIds == 1..MaxSockets
RoomIds == 1..MaxRooms

\* Room names: a chat id, a user id or a socket's own id.
ChatRoom(c) == <<"chat", c>>
UserRoom(u) == <<"user", u>>
SockRoom(s) == <<"sock", s>>

VARIABLES
    sockets,            \* io.sockets.sockets: the live connections
    nextSocket,         \* number of connections accepted so far (ids are fresh)
    handshake,          \* socket.handshake.query.userId of each connection
    rooms,              \* socket.rooms of each connection
    userSocketMap,      \* the registry, a set of <<userId, socketId>> entries
    lastConnect,        \* history: the connection each user connected on last
    onlineSnapshot,     \* the last getOnlineUser broadcast: payload and receivers
    showOnlineStatus,   \* profile service: privacySettings.showOnlineStatus
    chats,              \* Chat collection, a sequence; the id is the index
    messages,           \* Messages collection, a sequence; the id is the index
    pc,                 \* per request slot: the await it is suspended at
    loc,                \* per request slot: the handler's local variables
    preview,            \* per message: the background link-preview task
    emitLog,            \* every socket emit, in order
    responded,          \* history: HTTP responses sent, in order
    seenEval,           \* history: the flags read by the request that set seen
    ops                 \* number of requests started

vars == <<sockets, nextSocket, handshake, rooms, userSocketMap, lastConnect,
          onlineSnapshot, showOnlineStatus, chats, messages, pc, loc, preview,
          emitLog, responded, seenEval, ops>>

socketVars == <<sockets, nextSocket, handshake, rooms, userSocketMap,
                lastConnect, onlineSnapshot>>
dbVars == <<chats, messages>>
reqVars == <<pc, loc, ops>>

(***************************************************************************)
(* The registry: a JavaScript object used as a map (socket.ts:18).         *)
(***************************************************************************)
Keys(m) == {e[1] : e \in m}

MapDelete(m, k) == {e \in m : e[1] # k}

\* A registry that appends an entry instead of overwriting the key.
MapPutKeepOld(m, k, v) == m \cup {<<k, v>>}

MapPut(m, k, v) == MapDelete(m, k) \cup {<<k, v>>}

getRecieverSocketId(u) ==
    IF u \in Keys(userSocketMap)
    THEN (CHOOSE e \in userSocketMap : e[1] = u)[2]
    ELSE None

\* A room that still holds the connections that were closed.
InRoomEverOpened(r) == {s \in 1..nextSocket : r \in rooms[s] \/ r = SockRoom(s)}

\* io.to(room): the live connections that are in the room now.
InRoom(r) == {s \in sockets : r \in rooms[s]}

\* A broadcast computed from the registry as it was before the mutation.
BroadcastStale(m, live) == [users |-> Keys(userSocketMap), to |-> live]

\* io.emit("getOnlineUser", Object.keys(userSocketMap)) on the registry m,
\* delivered to the connections live.
Broadcast(m, live) == [users |-> Keys(m), to |-> live]

(***************************************************************************)
(* io.on("connection"): a new connection with a fresh id registers its     *)
(* user, broadcasts the online users and joins the user's room.            *)
(***************************************************************************)
Register(m, userId, s) ==
    IF userId # NoUserId /\ userId # UndefinedStr
    THEN MapPut(m, userId, s)
    ELSE m

Connect(userId) ==
    /\ nextSocket < MaxSockets
    /\ LET s == nextSocket + 1
           m == Register(userSocketMap, userId, s)
       IN  /\ nextSocket' = s
           /\ sockets' = sockets \cup {s}
           /\ handshake' = [handshake EXCEPT ![s] = userId]
           /\ userSocketMap' = m
           /\ lastConnect' = IF userId \in Users
                             THEN [lastConnect EXCEPT ![userId] = s]
                             ELSE lastConnect
           /\ onlineSnapshot' = Broadcast(m, sockets')
           /\ rooms' = [rooms EXCEPT ![s] =
                           {SockRoom(s)} \cup
                           (IF userId # NoUserId THEN {UserRoom(userId)} ELSE {})]
    /\ UNCHANGED <<showOnlineStatus, dbVars, reqVars, preview, emitLog,
                   responded, seenEval>>

(***************************************************************************)
(* socket.on("disconnect"): the connection has already left its rooms and  *)
(* the namespace when the handler runs.                                    *)
(***************************************************************************)
Unregister(m, userId, s) == MapDelete(m, userId)

Disconnect(s) ==
    /\ s \in sockets
    /\ sockets' = sockets \ {s}
    /\ rooms' = [rooms EXCEPT ![s] = {}]
    /\ IF handshake[s] # NoUserId
       THEN /\ userSocketMap' = Unregister(userSocketMap, handshake[s], s)
            /\ onlineSnapshot' = Broadcast(userSocketMap', sockets')
       ELSE UNCHANGED <<userSocketMap, onlineSnapshot>>
    /\ UNCHANGED <<nextSocket, handshake, lastConnect, showOnlineStatus, dbVars,
                   reqVars, preview, emitLog, responded, seenEval>>

(***************************************************************************)
(* socket.on("joinChat") and socket.on("leaveChat").  The chatJoined        *)
(* acknowledgement goes back to the joining connection alone and changes   *)
(* nothing on the server.                                                  *)
(***************************************************************************)
JoinChat(s, c) ==
    /\ s \in sockets
    /\ rooms' = [rooms EXCEPT ![s] = @ \cup {ChatRoom(c)}]
    /\ UNCHANGED <<sockets, nextSocket, handshake, userSocketMap, lastConnect,
                   onlineSnapshot, showOnlineStatus, dbVars, reqVars, preview,
                   emitLog, responded, seenEval>>

LeaveChat(s, c) ==
    /\ s \in sockets
    /\ rooms' = [rooms EXCEPT ![s] = @ \ {ChatRoom(c)}]
    /\ UNCHANGED <<sockets, nextSocket, handshake, userSocketMap, lastConnect,
                   onlineSnapshot, showOnlineStatus, dbVars, reqVars, preview,
                   emitLog, responded, seenEval>>

(***************************************************************************)
(* Request slots.  A slot that is idle may start a request; the number of  *)
(* requests started is bounded.                                            *)
(***************************************************************************)
Idle == [op |-> "idle"]

CanStart(p) == pc[p] = "idle" /\ ops < MaxOps

Respond(p, r) == responded' = Append(responded, r)

Finish(p) ==
    /\ pc' = [pc EXCEPT ![p] = "idle"]
    /\ loc' = [loc EXCEPT ![p] = Idle]

ChatIds == DOMAIN chats
MsgIds == DOMAIN messages

(***************************************************************************)
(* createNewChat (chat.ts:80-119).                                         *)
(***************************************************************************)
\* Chat.findOne({users: {$all: [a, b], $size: 2}}): the first chat that has
\* two users and holds both a and b, or None.
MatchesPair(c, a, b) ==
    /\ Len(chats[c].users) = 2
    /\ \E i \in 1..2 : chats[c].users[i] = a
    /\ \E i \in 1..2 : chats[c].users[i] = b

FindChatByUsers(a, b) ==
    IF \E c \in ChatIds : MatchesPair(c, a, b)
    THEN CHOOSE c \in ChatIds :
             /\ MatchesPair(c, a, b)
             /\ \A d \in ChatIds : MatchesPair(d, a, b) => c <= d
    ELSE None

NoLatest == [set |-> FALSE, text |-> "", sender |-> ""]

NewChat(a, b) == [users |-> <<a, b>>, latestMessage |-> NoLatest]

\* Lines 82-94: a missing otherUserId is answered 400, otherwise the lookup
\* is issued.
CreateChatStart(p, userId, otherUserId) ==
    /\ CanStart(p)
    /\ ops' = ops + 1
    /\ IF otherUserId = NoUserId
       THEN /\ Respond(p, [op |-> "createNewChat", status |-> 400, id |-> None,
                           by |-> userId, other |-> otherUserId])
            /\ UNCHANGED <<pc, loc>>
       ELSE /\ pc' = [pc EXCEPT ![p] = "cnc_findOne"]
            /\ loc' = [loc EXCEPT ![p] = [op |-> "createNewChat",
                                          userId |-> userId,
                                          otherUserId |-> otherUserId]]
            /\ UNCHANGED responded
    /\ UNCHANGED <<socketVars, showOnlineStatus, dbVars, preview, emitLog,
                   seenEval>>

\* Lines 92-106: the lookup returns; an existing chat is answered at once,
\* otherwise the create is issued.
CreateChatFindOne(p) ==
    /\ pc[p] = "cnc_findOne"
    /\ LET existingChat == FindChatByUsers(loc[p].userId, loc[p].otherUserId)
       IN  IF existingChat # None
           THEN /\ Respond(p, [op |-> "createNewChat", status |-> 200,
                               id |-> existingChat, by |-> loc[p].userId,
                               other |-> loc[p].otherUserId])
                /\ Finish(p)
           ELSE /\ pc' = [pc EXCEPT ![p] = "cnc_create"]
                /\ UNCHANGED <<loc, responded>>
    /\ UNCHANGED <<socketVars, showOnlineStatus, dbVars, preview, emitLog,
                   seenEval, ops>>

\* Lines 104-118: the create is applied and answered 201.
CreateChatCreate(p) ==
    /\ pc[p] = "cnc_create"
    /\ Len(chats) < MaxChats
    /\ chats' = Append(chats, NewChat(loc[p].userId, loc[p].otherUserId))
    /\ Respond(p, [op |-> "createNewChat", status |-> 201, id |-> Len(chats) + 1,
                   by |-> loc[p].userId, other |-> loc[p].otherUserId])
    /\ Finish(p)
    /\ UNCHANGED <<socketVars, showOnlineStatus, messages, preview, emitLog,
                   seenEval, ops>>

(***************************************************************************)
(* Socket emits.  An entry of emitLog records the event, the room it was   *)
(* sent to, the connections in that room at that moment, and the payload.  *)
(***************************************************************************)
Emit(ev, room, id, payload) ==
    [ev |-> ev, room |-> room, to |-> InRoom(room), id |-> id,
     payload |-> payload]

\* A direct leg that is emitted whether or not the connection id resolved.
EmitDirectUnguarded(ev, s, id, payload) ==
    <<Emit(ev, SockRoom(s), id, payload)>>

\* io.to(socketId).emit(...) guarded by "if (socketId)".
EmitDirect(ev, s, id, payload) ==
    IF s # None THEN <<Emit(ev, SockRoom(s), id, payload)>> ELSE <<>>

(***************************************************************************)
(* socket.on("typing") and socket.on("stopTyping") (socket.ts:45-50 and    *)
(* 136-141).  The room and the user id are the ones the client sent.  An   *)
(* entry of emitLog for these events also records the connection the event *)
(* came from.                                                              *)
(***************************************************************************)
\* A broadcast to the room that does not leave the sending connection out.
EmitFromIncludingSelf(ev, s, room, payload) ==
    [ev |-> ev, room |-> room, to |-> InRoom(room), id |-> None,
     payload |-> payload, from |-> s]

\* socket.to(room).emit(...): every connection in the room but the socket
\* itself.
EmitFrom(ev, s, room, payload) ==
    [ev |-> ev, room |-> room, to |-> InRoom(room) \ {s}, id |-> None,
     payload |-> payload, from |-> s]

\* The rooms a client can name: the room of a chat, or a user's own room.
TypingRooms == {ChatRoom(c) : c \in RoomIds} \cup {UserRoom(u) : u \in Users}

\* The chatId of the payload is the room name as the client sent it.
TypingPayload(room, userId) == [chatId |-> room[2], userId |-> userId]

Typing(s, room, userId) ==
    /\ s \in sockets
    /\ ops < MaxSends
    /\ ops' = ops + 1
    /\ emitLog' = Append(emitLog,
                         EmitFrom("userTyping", s, room,
                                  TypingPayload(room, userId)))
    /\ UNCHANGED <<socketVars, showOnlineStatus, dbVars, pc, loc, preview,
                   responded, seenEval>>

StopTyping(s, room, userId) ==
    /\ s \in sockets
    /\ ops < MaxSends
    /\ ops' = ops + 1
    /\ emitLog' = Append(emitLog,
                         EmitFrom("userStoppedTyping", s, room,
                                  TypingPayload(room, userId)))
    /\ UNCHANGED <<socketVars, showOnlineStatus, dbVars, pc, loc, preview,
                   responded, seenEval>>

(***************************************************************************)
(* Message texts, and extractFirstUrl on them (chat.ts:14-20).             *)
(***************************************************************************)
PlainText == "hello"
UrlText == "check https://example.com out"
NoText == ""
Texts == {PlainText, UrlText}

extractFirstUrl(text) ==
    IF text = UrlText THEN "https://example.com" ELSE ""

(***************************************************************************)
(* The profile service's answer to GET /user/{id}/public: the request is   *)
(* rejected, or the profile has no privacySettings, or it has them with    *)
(* showReadReceipts on or off (chat.ts:389-402).                           *)
(***************************************************************************)
PrivacyResults == {"rejected", "noSettings", "on", "off"}

\* A participant whose lookup failed is taken to have read receipts off.
ShowReadReceiptsOnlyIfOn(result) == result = "on"

ShowReadReceipts(result) == result # "off"

\* A gate that is satisfied by one participant alone.
BothAllowEither(a, b) == ShowReadReceipts(a) \/ ShowReadReceipts(b)

\* senderPrivacy.showReadReceipts && receiverPrivacy.showReadReceipts
BothAllowReadReceipts(a, b) == ShowReadReceipts(a) /\ ShowReadReceipts(b)

NoEval == [a |-> "none", b |-> "none"]

(***************************************************************************)
(* sendMessage (chat.ts:328-572).                                          *)
(***************************************************************************)
SendResponse(status, id, by) ==
    [op |-> "sendMessage", status |-> status, id |-> id, by |-> by,
     other |-> NoUserId]

\* Lines 329-353: the request is validated and the chat lookup issued.
SendStart(p, senderId, chatId, text, imageFile, replyTo) ==
    /\ CanStart(p)
    /\ ops' = ops + 1
    /\ IF senderId = NoUserId
       THEN /\ Respond(p, SendResponse(401, None, senderId))
            /\ UNCHANGED <<pc, loc>>
       ELSE IF chatId = None \/ (text = NoText /\ ~imageFile)
       THEN /\ Respond(p, SendResponse(400, None, senderId))
            /\ UNCHANGED <<pc, loc>>
       ELSE /\ pc' = [pc EXCEPT ![p] = "send_findChat"]
            /\ loc' = [loc EXCEPT ![p] =
                          [op |-> "sendMessage", senderId |-> senderId,
                           chatId |-> chatId, text |-> text,
                           imageFile |-> imageFile, replyTo |-> replyTo]]
            /\ UNCHANGED responded
    /\ UNCHANGED <<socketVars, showOnlineStatus, dbVars, preview, emitLog,
                   seenEval>>

\* chat.users.find(id => id !== userId)
OtherUser(c, userId) ==
    IF \E i \in 1..Len(chats[c].users) : chats[c].users[i] # userId
    THEN chats[c].users[CHOOSE i \in 1..Len(chats[c].users) :
                            /\ chats[c].users[i] # userId
                            /\ \A j \in 1..(i - 1) : chats[c].users[j] = userId]
    ELSE NoUserId

\* A participant check that lets every user through.
IsUserInChatAlways(c, userId) == TRUE

IsUserInChat(c, userId) ==
    \E i \in 1..Len(chats[c].users) : chats[c].users[i] = userId

\* Lines 353-387: the chat is read; a missing chat, a non-participant and a
\* chat without another user are answered, otherwise both privacy lookups
\* are issued.
SendFindChat(p) ==
    /\ pc[p] = "send_findChat"
    /\ LET l == loc[p]
       IN  IF l.chatId \notin ChatIds
           THEN /\ Respond(p, SendResponse(404, None, l.senderId))
                /\ Finish(p)
           ELSE IF ~IsUserInChat(l.chatId, l.senderId)
           THEN /\ Respond(p, SendResponse(403, None, l.senderId))
                /\ Finish(p)
           ELSE IF OtherUser(l.chatId, l.senderId) = NoUserId
           THEN /\ Respond(p, SendResponse(401, None, l.senderId))
                /\ Finish(p)
           ELSE /\ pc' = [pc EXCEPT ![p] = "send_privacy"]
                /\ loc' = [loc EXCEPT ![p] =
                              [f \in DOMAIN l \cup {"otherUserId"} |->
                                  IF f = "otherUserId"
                                  THEN OtherUser(l.chatId, l.senderId)
                                  ELSE l[f]]]
                /\ UNCHANGED responded
    /\ UNCHANGED <<socketVars, showOnlineStatus, dbVars, preview, emitLog,
                   seenEval, ops>>

\* A check that takes any live connection of the receiver for a viewer.
IsReceiverInChatRoomAnyRoom(otherUserId, chatId) ==
    LET receiverSocketId == getRecieverSocketId(otherUserId)
    IN  receiverSocketId # None /\ receiverSocketId \in sockets

\* Lines 409-417: the receiver resolves in the registry, the connection is
\* live and it has joined the room of the chat.
IsReceiverInChatRoom(otherUserId, chatId) ==
    LET receiverSocketId == getRecieverSocketId(otherUserId)
    IN  /\ receiverSocketId # None
        /\ receiverSocketId \in sockets
        /\ ChatRoom(chatId) \in rooms[receiverSocketId]

\* A quoted type that is the type of the replied message itself.
QuotedMessageTypeSame(t) == t

\* Lines 442-447: the quoted type of a replied message.
QuotedMessageType(t) ==
    IF t = "image" THEN "image" ELSE IF t = "deleted" THEN "deleted" ELSE "text"

NoReplied == [id |-> None, text |-> NoText, sender |-> NoUserId,
              messageType |-> "text", image |-> FALSE]

RepliedSnapshot(m) ==
    [id |-> m, text |-> messages[m].text, sender |-> messages[m].sender,
     messageType |-> QuotedMessageType(messages[m].messageType),
     image |-> messages[m].image]

\* A document whose seenAt follows the read-receipt gate alone.
MessageDataSeenAtUngated(l, repliedMessage) ==
    [chatId |-> l.chatId,
     sender |-> l.senderId,
     seen |-> l.isReceiverInChatRoom,
     seenAt |-> BothAllowReadReceipts(l.senderPrivacy, l.receiverPrivacy),
     replyTo |-> l.replyTo,
     repliedMessage |-> repliedMessage,
     image |-> l.imageFile,
     text |-> l.text,
     messageType |-> IF l.replyTo # None THEN "reply"
                     ELSE IF l.imageFile THEN "image" ELSE "text",
     reactions |-> <<>>,
     linkPreview |-> FALSE,
     isEdited |-> FALSE,
     editedAt |-> FALSE,
     createdAt |-> None,
     v |-> 0]

\* Lines 419-470: the document that is saved.
MessageData(l, repliedMessage) ==
    [chatId |-> l.chatId,
     sender |-> l.senderId,
     seen |-> l.isReceiverInChatRoom,
     seenAt |-> l.isReceiverInChatRoom
                    /\ BothAllowReadReceipts(l.senderPrivacy, l.receiverPrivacy),
     replyTo |-> l.replyTo,
     repliedMessage |-> repliedMessage,
     image |-> l.imageFile,
     text |-> l.text,
     messageType |-> IF l.replyTo # None THEN "reply"
                     ELSE IF l.imageFile THEN "image" ELSE "text",
     reactions |-> <<>>,
     linkPreview |-> FALSE,
     isEdited |-> FALSE,
     editedAt |-> FALSE,
     createdAt |-> None,
     v |-> 0]

\* Lines 382-437: both lookups have settled; the room check is made, and
\* either the replied message is looked up or the save is issued.
SendPrivacy(p, senderResult, receiverResult) ==
    /\ pc[p] = "send_privacy"
    /\ LET l == loc[p]
           add == [senderPrivacy |-> senderResult,
                   receiverPrivacy |-> receiverResult,
                   receiverSocketId |-> getRecieverSocketId(l.otherUserId),
                   isReceiverInChatRoom |->
                       IsReceiverInChatRoom(l.otherUserId, l.chatId),
                   repliedMessage |-> NoReplied,
                   savedId |-> None]
       IN  loc' = [loc EXCEPT ![p] =
                      [f \in DOMAIN l \cup DOMAIN add |->
                          IF f \in DOMAIN add THEN add[f] ELSE l[f]]]
    /\ pc' = [pc EXCEPT ![p] =
                 IF loc[p].replyTo # None THEN "send_reply" ELSE "send_save"]
    /\ UNCHANGED <<socketVars, showOnlineStatus, dbVars, preview, emitLog,
                   responded, seenEval, ops>>

\* Lines 435-474: the replied message is read and snapshotted, and the save
\* is issued.
SendReply(p) ==
    /\ pc[p] = "send_reply"
    /\ loc' = [loc EXCEPT ![p].repliedMessage =
                  IF loc[p].replyTo \in MsgIds
                  THEN RepliedSnapshot(loc[p].replyTo)
                  ELSE NoReplied]
    /\ pc' = [pc EXCEPT ![p] = "send_save"]
    /\ UNCHANGED <<socketVars, showOnlineStatus, dbVars, preview, emitLog,
                   responded, seenEval, ops>>

NoPreview == [st |-> "none", chatId |-> None, senderId |-> NoUserId,
              receiverSocketId |-> None]

\* Lines 473-477: the save is applied and the re-read issued.
SendSave(p) ==
    /\ pc[p] = "send_save"
    /\ Len(messages) < MaxMsgs
    /\ messages' = Append(messages,
                          [MessageData(loc[p], loc[p].repliedMessage)
                               EXCEPT !.createdAt = Len(messages) + 1])
    /\ seenEval' = Append(seenEval,
                          IF loc[p].isReceiverInChatRoom
                          THEN [a |-> loc[p].senderPrivacy,
                                b |-> loc[p].receiverPrivacy]
                          ELSE NoEval)
    /\ preview' = Append(preview, NoPreview)
    /\ loc' = [loc EXCEPT ![p].savedId = Len(messages) + 1]
    /\ pc' = [pc EXCEPT ![p] = "send_refetch"]
    /\ UNCHANGED <<socketVars, showOnlineStatus, chats, emitLog, responded, ops>>

\* A preview is fetched for any message with a URL in its text, image or
\* not.
WantsPreviewWithImage(text, imageFile) ==
    text # NoText /\ extractFirstUrl(text) # ""

\* Lines 486-488: a preview is fetched for a text-only message with a URL.
WantsPreview(text, imageFile) ==
    text # NoText /\ ~imageFile /\ extractFirstUrl(text) # ""

\* Lines 477-534: the saved message is read back, the background preview
\* task is started and the update of the chat issued.
SendRefetch(p) ==
    /\ pc[p] = "send_refetch"
    /\ LET l == loc[p]
       IN  /\ loc' = [loc EXCEPT ![p] =
                         [f \in DOMAIN l \cup {"finalMessage"} |->
                             IF f = "finalMessage" THEN messages[l.savedId]
                             ELSE l[f]]]
           /\ preview' = IF WantsPreview(l.text, l.imageFile)
                         THEN [preview EXCEPT ![l.savedId] =
                                  [st |-> "fetch", chatId |-> l.chatId,
                                   senderId |-> l.senderId,
                                   receiverSocketId |-> l.receiverSocketId]]
                         ELSE preview
    /\ pc' = [pc EXCEPT ![p] = "send_updateChat"]
    /\ UNCHANGED <<socketVars, showOnlineStatus, dbVars, emitLog, responded,
                   seenEval, ops>>

\* Lines 519-522.
LatestMessageText(text, imageFile, replyTo) ==
    IF replyTo # None
    THEN "reply: " \o (IF text = NoText THEN "undefined" ELSE text)
    ELSE IF imageFile THEN "[image]" ELSE text

\* A read receipt that is sent whenever the receiver is in the room.
SeenReceiptUngated(l, senderSocketId) ==
    IF l.isReceiverInChatRoom /\ senderSocketId # None
    THEN <<Emit("messagesSeen", SockRoom(senderSocketId), l.savedId,
                [chatId |-> l.chatId, seenBy |-> l.otherUserId,
                 messageIds |-> {l.savedId}])>>
    ELSE <<>>

\* Lines 558-566: the read receipt sent to the sender.
SeenReceipt(l, senderSocketId) ==
    IF /\ l.isReceiverInChatRoom
       /\ senderSocketId # None
       /\ BothAllowReadReceipts(l.senderPrivacy, l.receiverPrivacy)
    THEN <<Emit("messagesSeen", SockRoom(senderSocketId), l.savedId,
                [chatId |-> l.chatId, seenBy |-> l.otherUserId,
                 messageIds |-> {l.savedId}])>>
    ELSE <<>>

\* Lines 524-571: the chat's latestMessage is updated; newMessage goes to the
\* room, to the receiver and to the sender; the read receipt follows and the
\* request is answered 201.
SendUpdateChat(p) ==
    /\ pc[p] = "send_updateChat"
    /\ LET l == loc[p]
           senderSocketId == getRecieverSocketId(l.senderId)
       IN  /\ chats' = [chats EXCEPT ![l.chatId].latestMessage =
                           [set |-> TRUE,
                            text |-> LatestMessageText(l.text, l.imageFile,
                                                       l.replyTo),
                            sender |-> l.senderId]]
           /\ emitLog' = emitLog
                  \o <<Emit("newMessage", ChatRoom(l.chatId), l.savedId,
                            l.finalMessage)>>
                  \o EmitDirect("newMessage", l.receiverSocketId, l.savedId,
                                l.finalMessage)
                  \o EmitDirect("newMessage", senderSocketId, l.savedId,
                                l.finalMessage)
                  \o SeenReceipt(l, senderSocketId)
           /\ Respond(p, SendResponse(201, l.savedId, l.senderId))
    /\ Finish(p)
    /\ UNCHANGED <<socketVars, showOnlineStatus, messages, preview, seenEval,
                   ops>>

(***************************************************************************)
(* The background link-preview task of a message (chat.ts:490-515).        *)
(***************************************************************************)
\* Lines 23-55 and 490-498: the fetch returns metadata, or fails and yields
\* null; with metadata the update of the message is issued.
PreviewFetch(m, found) ==
    /\ m \in MsgIds
    /\ preview[m].st = "fetch"
    /\ preview' = [preview EXCEPT ![m].st = IF found THEN "update" ELSE "done"]
    /\ UNCHANGED <<socketVars, showOnlineStatus, dbVars, reqVars, emitLog,
                   responded, seenEval>>

\* Lines 494-510: the preview is stored and messageUpdated goes to the room,
\* to the receiver connection resolved when the message was sent, and to the
\* sender.
PreviewUpdate(m) ==
    /\ m \in MsgIds
    /\ preview[m].st = "update"
    /\ messages' = [messages EXCEPT ![m].linkPreview = TRUE]
    /\ emitLog' = emitLog
           \o <<Emit("messageUpdated", ChatRoom(preview[m].chatId), m,
                     messages'[m])>>
           \o EmitDirect("messageUpdated", preview[m].receiverSocketId, m,
                         messages'[m])
           \o EmitDirect("messageUpdated",
                         getRecieverSocketId(preview[m].senderId), m,
                         messages'[m])
    /\ preview' = [preview EXCEPT ![m].st = "done"]
    /\ UNCHANGED <<socketVars, showOnlineStatus, chats, reqVars, responded,
                   seenEval>>

(***************************************************************************)
(* getMessagesByChat (chat.ts:574-772).                                    *)
(***************************************************************************)
GetResponse(status, id, by) ==
    [op |-> "getMessagesByChat", status |-> status, id |-> id, by |-> by,
     other |-> NoUserId]

\* Messages.find({chatId, sender: {$ne: userId}, seen: false})
UnseenFor(chatId, userId) ==
    {m \in MsgIds : /\ messages[m].chatId = chatId
                    /\ messages[m].sender # userId
                    /\ ~messages[m].seen}

\* Lines 576-597: the request is validated and the chat lookup issued.
GetStart(p, userId, chatId, page) ==
    /\ CanStart(p)
    /\ ops' = ops + 1
    /\ IF userId = NoUserId
       THEN /\ Respond(p, GetResponse(401, None, userId))
            /\ UNCHANGED <<pc, loc>>
       ELSE IF chatId = None
       THEN /\ Respond(p, GetResponse(400, None, userId))
            /\ UNCHANGED <<pc, loc>>
       ELSE /\ pc' = [pc EXCEPT ![p] = "get_findChat"]
            /\ loc' = [loc EXCEPT ![p] =
                          [op |-> "getMessagesByChat", userId |-> userId,
                           chatId |-> chatId, page |-> page,
                           otherUserId |-> NoUserId,
                           currentUserPrivacy |-> "none",
                           otherUserPrivacy |-> "none",
                           messagesToMarkSeen |-> {},
                           \* history: the messages unseen for the
                           \* requester when the request arrived
                           startUnseen |-> UnseenFor(chatId, userId)]]
            /\ UNCHANGED responded
    /\ UNCHANGED <<socketVars, showOnlineStatus, dbVars, preview, emitLog,
                   seenEval>>

\* Lines 597-627: the chat is read; a missing chat and a non-participant are
\* answered, otherwise the requester's privacy lookup is issued.
GetFindChat(p) ==
    /\ pc[p] = "get_findChat"
    /\ LET l == loc[p]
       IN  IF l.chatId \notin ChatIds
           THEN /\ Respond(p, GetResponse(404, None, l.userId))
                /\ Finish(p)
           ELSE IF ~IsUserInChat(l.chatId, l.userId)
           THEN /\ Respond(p, GetResponse(403, None, l.userId))
                /\ Finish(p)
           ELSE /\ pc' = [pc EXCEPT ![p] = "get_privacyCurrent"]
                /\ loc' = [loc EXCEPT ![p].otherUserId =
                              OtherUser(l.chatId, l.userId)]
                /\ UNCHANGED responded
    /\ UNCHANGED <<socketVars, showOnlineStatus, dbVars, preview, emitLog,
                   seenEval, ops>>

\* Line 652: only the first page marks messages seen.
AfterPrivacy(page) == IF page = 1 THEN "get_find" ELSE "get_list"

\* Lines 624-646: the requester's lookup has settled; the other user's is
\* issued when the chat has another user.
GetPrivacyCurrent(p, result) ==
    /\ pc[p] = "get_privacyCurrent"
    /\ loc' = [loc EXCEPT ![p].currentUserPrivacy = result,
                          ![p].otherUserPrivacy =
                              IF loc[p].otherUserId = NoUserId
                              THEN "noSettings" ELSE "none"]
    /\ pc' = [pc EXCEPT ![p] =
                 IF loc[p].otherUserId # NoUserId
                 THEN "get_privacyOther"
                 ELSE AfterPrivacy(loc[p].page)]
    /\ UNCHANGED <<socketVars, showOnlineStatus, dbVars, preview, emitLog,
                   responded, seenEval, ops>>

\* Lines 635-657: the other user's lookup has settled.
GetPrivacyOther(p, result) ==
    /\ pc[p] = "get_privacyOther"
    /\ loc' = [loc EXCEPT ![p].otherUserPrivacy = result]
    /\ pc' = [pc EXCEPT ![p] = AfterPrivacy(loc[p].page)]
    /\ UNCHANGED <<socketVars, showOnlineStatus, dbVars, preview, emitLog,
                   responded, seenEval, ops>>

\* Lines 653-661: the unseen messages of the other user are read.
GetFind(p) ==
    /\ pc[p] = "get_find"
    /\ LET found == UnseenFor(loc[p].chatId, loc[p].userId)
       IN  /\ loc' = [loc EXCEPT ![p].messagesToMarkSeen = found]
           /\ pc' = [pc EXCEPT ![p] =
                        IF found # {} THEN "get_updateMany" ELSE "get_list"]
    /\ UNCHANGED <<socketVars, showOnlineStatus, dbVars, preview, emitLog,
                   responded, seenEval, ops>>

\* A patch that marks a message seen only under the read-receipt gate.
MarkSeenGated(msg, bothAllow) ==
    [msg EXCEPT !.seen = bothAllow, !.seenAt = IF bothAllow THEN TRUE ELSE @]

\* Lines 667-670: the patch of updateMany on one message.
MarkSeen(msg, bothAllow) ==
    [msg EXCEPT !.seen = TRUE, !.seenAt = IF bothAllow THEN TRUE ELSE @]

\* Lines 661-686: updateMany is applied to the messages that match now, and
\* one messagesSeen goes to the other user's connection when both allow
\* read receipts.
GetUpdateMany(p) ==
    /\ pc[p] = "get_updateMany"
    /\ LET l == loc[p]
           bothAllow == BothAllowReadReceipts(l.currentUserPrivacy,
                                              l.otherUserPrivacy)
           hit == UnseenFor(l.chatId, l.userId)
           otherUserSocketId == getRecieverSocketId(l.otherUserId)
       IN  /\ messages' = [m \in MsgIds |->
                              IF m \in hit THEN MarkSeen(messages[m], bothAllow)
                              ELSE messages[m]]
           /\ seenEval' = [m \in MsgIds |->
                              IF m \in hit
                              THEN [a |-> l.currentUserPrivacy,
                                    b |-> l.otherUserPrivacy]
                              ELSE seenEval[m]]
           /\ emitLog' = emitLog \o
                  (IF bothAllow /\ l.otherUserId # NoUserId
                   THEN EmitDirect("messagesSeen", otherUserSocketId, None,
                                   [chatId |-> l.chatId, seenBy |-> l.userId,
                                    messageIds |-> l.messagesToMarkSeen])
                   ELSE <<>>)
    /\ pc' = [pc EXCEPT ![p] = "get_list"]
    /\ UNCHANGED <<socketVars, showOnlineStatus, chats, loc, preview, responded,
                   ops>>

\* Lines 688-770: the page is read and returned.
GetList(p) ==
    /\ pc[p] = "get_list"
    /\ Respond(p, GetResponse(200, loc[p].chatId, loc[p].userId))
    /\ Finish(p)
    /\ UNCHANGED <<socketVars, showOnlineStatus, dbVars, preview, emitLog,
                   seenEval, ops>>

(***************************************************************************)
(* Reaction toggles: the HTTP endpoint addReaction (chat.ts:259-308) and   *)
(* the socket event addReaction (socket.ts:54-132) hold the same logic.    *)
(***************************************************************************)
NoEmoji == ""

IndexOf(reactions, userId, emoji) ==
    IF \E i \in DOMAIN reactions :
           reactions[i].userId = userId /\ reactions[i].emoji = emoji
    THEN CHOOSE i \in DOMAIN reactions :
             /\ reactions[i].userId = userId /\ reactions[i].emoji = emoji
             /\ \A j \in 1..(i - 1) :
                    ~(reactions[j].userId = userId /\ reactions[j].emoji = emoji)
    ELSE 0

RemoveAt(reactions, k) ==
    [i \in 1..(Len(reactions) - 1) |->
        IF i < k THEN reactions[i] ELSE reactions[i + 1]]

WithoutUser(reactions, userId) ==
    LET keep(r) == r.userId # userId IN SelectSeq(reactions, keep)

\* A toggle that adds the new reaction without removing the user's other
\* reaction.
ToggleReactionAppend(reactions, userId, emoji) ==
    IF IndexOf(reactions, userId, emoji) > 0
    THEN RemoveAt(reactions, IndexOf(reactions, userId, emoji))
    ELSE Append(reactions, [userId |-> userId, emoji |-> emoji])

\* A toggle that never takes a reaction off.
ToggleReactionNoRemove(reactions, userId, emoji) ==
    Append(WithoutUser(reactions, userId), [userId |-> userId, emoji |-> emoji])

\* chat.ts:276-292 and socket.ts:79-95.
ToggleReaction(reactions, userId, emoji) ==
    IF IndexOf(reactions, userId, emoji) > 0
    THEN RemoveAt(reactions, IndexOf(reactions, userId, emoji))
    ELSE Append(WithoutUser(reactions, userId),
                [userId |-> userId, emoji |-> emoji])

ReactResponse(status, id, by) ==
    [op |-> "addReaction", status |-> status, id |-> id, by |-> by,
     other |-> NoUserId]

\* chat.ts:260-269: the request is validated and the message lookup issued.
ReactStart(p, userId, messageId, emoji) ==
    /\ CanStart(p)
    /\ ops' = ops + 1
    /\ IF userId = NoUserId \/ messageId = None \/ emoji = NoEmoji
       THEN /\ Respond(p, ReactResponse(400, messageId, userId))
            /\ UNCHANGED <<pc, loc>>
       ELSE /\ pc' = [pc EXCEPT ![p] = "react_find"]
            /\ loc' = [loc EXCEPT ![p] =
                          [op |-> "addReaction", via |-> "http",
                           userId |-> userId, messageId |-> messageId,
                           emoji |-> emoji, existingReactions |-> <<>>,
                           newReactions |-> <<>>, v |-> 0, chatId |-> None]]
            /\ UNCHANGED responded
    /\ UNCHANGED <<socketVars, showOnlineStatus, dbVars, preview, emitLog,
                   seenEval>>

\* socket.ts:59-73: the event is validated, with the user id taken from the
\* handshake of the connection, and the message lookup issued.
SocketReactStart(p, s, messageId, emoji) ==
    /\ CanStart(p)
    /\ s \in sockets
    /\ ops' = ops + 1
    /\ IF handshake[s] = NoUserId \/ messageId = None \/ emoji = NoEmoji
       THEN UNCHANGED <<pc, loc>>
       ELSE /\ pc' = [pc EXCEPT ![p] = "react_find"]
            /\ loc' = [loc EXCEPT ![p] =
                          [op |-> "addReaction", via |-> "socket",
                           userId |-> handshake[s], messageId |-> messageId,
                           emoji |-> emoji, existingReactions |-> <<>>,
                           newReactions |-> <<>>, v |-> 0, chatId |-> None]]
    /\ UNCHANGED <<socketVars, showOnlineStatus, dbVars, preview, emitLog,
                   responded, seenEval>>

\* chat.ts:269-295 and socket.ts:73-98: the message is read; a missing
\* message ends the request, otherwise the new reactions are computed from
\* the reactions read and the save is issued.
ReactFind(p) ==
    /\ pc[p] = "react_find"
    /\ LET l == loc[p]
       IN  IF l.messageId \notin MsgIds
           THEN /\ IF l.via = "http"
                   THEN Respond(p, ReactResponse(404, l.messageId, l.userId))
                   ELSE UNCHANGED responded
                /\ Finish(p)
           ELSE /\ loc' = [loc EXCEPT
                              ![p].existingReactions =
                                  messages[l.messageId].reactions,
                              ![p].newReactions =
                                  ToggleReaction(messages[l.messageId].reactions,
                                                 l.userId, l.emoji),
                              ![p].v = messages[l.messageId].v,
                              ![p].chatId = messages[l.messageId].chatId]
                /\ pc' = [pc EXCEPT ![p] = "react_save"]
                /\ UNCHANGED responded
    /\ UNCHANGED <<socketVars, showOnlineStatus, dbVars, preview, emitLog,
                   seenEval, ops>>

\* message.save() after an array was assigned.  The document read may be
\* stale: the stored array version (__v) has moved on.  A stale save either
\* replaces the stored array ($set) or is rejected with a VersionError by the
\* object mapper's array versioning.
SaveOutcomes(readV, storedV) ==
    IF readV = storedV THEN {"saved"} ELSE {"saved", "versionError"}

\* A payload that carries the toggled reaction only.
ReactionPayloadDiff(l) ==
    [messageId |-> l.messageId,
     reactions |-> <<[userId |-> l.userId, emoji |-> l.emoji]>>]

\* chat.ts:299-302 and socket.ts:105-108: the payload of messageReaction.
ReactionPayload(l) == [messageId |-> l.messageId, reactions |-> l.newReactions]

\* chat.ts:304-307: the answer to a toggle that was saved.
ReactOk(l) ==
    [op |-> "addReaction", status |-> 200, id |-> l.messageId, by |-> l.userId,
     other |-> NoUserId, reactions |-> ReactionPayload(l).reactions]

\* chat.ts:295-307 and socket.ts:98-111: the save is applied and
\* messageReaction goes to the room.  The HTTP request is answered; the
\* socket handler goes on to look the chat up.  A rejected save is answered
\* by the error handler (HTTP) or logged (socket).
ReactSave(p, outcome) ==
    /\ pc[p] = "react_save"
    /\ LET l == loc[p]
       IN  /\ outcome \in SaveOutcomes(l.v, messages[l.messageId].v)
           /\ IF outcome = "saved"
              THEN /\ messages' = [messages EXCEPT
                                      ![l.messageId].reactions = l.newReactions,
                                      ![l.messageId].v = l.v + 1]
                   /\ emitLog' = Append(emitLog,
                                        Emit("messageReaction",
                                             ChatRoom(l.chatId), l.messageId,
                                             ReactionPayload(l)))
                   /\ IF l.via = "http"
                      THEN /\ Respond(p, ReactOk(l))
                           /\ Finish(p)
                      ELSE /\ pc' = [pc EXCEPT ![p] = "react_findChat"]
                           /\ UNCHANGED <<loc, responded>>
              ELSE /\ IF l.via = "http"
                      THEN Respond(p, ReactResponse(500, l.messageId, l.userId))
                      ELSE UNCHANGED responded
                   /\ Finish(p)
                   /\ UNCHANGED <<messages, emitLog>>
    /\ UNCHANGED <<socketVars, showOnlineStatus, chats, preview, seenEval, ops>>

\* The direct legs of socket.ts:114-123, one per chat user that resolves.
RECURSIVE DirectLegs(_, _, _, _)
DirectLegs(users, ev, id, payload) ==
    IF users = <<>> THEN <<>>
    ELSE EmitDirect(ev, getRecieverSocketId(Head(users)), id, payload)
             \o DirectLegs(Tail(users), ev, id, payload)

\* socket.ts:111-128: the chat is read and messageReaction goes to the
\* connection of every chat user that resolves.
SocketReactFindChat(p) ==
    /\ pc[p] = "react_findChat"
    /\ LET l == loc[p]
       IN  emitLog' = emitLog \o
               (IF l.chatId \in ChatIds
                THEN DirectLegs(chats[l.chatId].users, "messageReaction",
                                l.messageId, ReactionPayload(l))
                ELSE <<>>)
    /\ Finish(p)
    /\ UNCHANGED <<socketVars, showOnlineStatus, dbVars, preview, responded,
                   seenEval, ops>>

(***************************************************************************)
(* deleteMessage (chat.ts:774-854).                                        *)
(***************************************************************************)
DeletedText == "Message deleted"

DeleteResponse(status, id, by) ==
    [op |-> "deleteMessage", status |-> status, id |-> id, by |-> by,
     other |-> NoUserId]

\* Lines 776-791: the request is validated and the message lookup issued.
DeleteStart(p, userId, messageId) ==
    /\ CanStart(p)
    /\ ops' = ops + 1
    /\ IF userId = NoUserId
       THEN /\ Respond(p, DeleteResponse(401, messageId, userId))
            /\ UNCHANGED <<pc, loc>>
       ELSE IF messageId = None
       THEN /\ Respond(p, DeleteResponse(400, messageId, userId))
            /\ UNCHANGED <<pc, loc>>
       ELSE /\ pc' = [pc EXCEPT ![p] = "delete_find"]
            /\ loc' = [loc EXCEPT ![p] =
                          [op |-> "deleteMessage", userId |-> userId,
                           messageId |-> messageId]]
            /\ UNCHANGED responded
    /\ UNCHANGED <<socketVars, showOnlineStatus, dbVars, preview, emitLog,
                   seenEval>>

\* Lines 791-810: the message is read; a missing message and a requester
\* who is not the sender are answered, otherwise the save is issued.
DeleteFind(p) ==
    /\ pc[p] = "delete_find"
    /\ LET l == loc[p]
       IN  IF l.messageId \notin MsgIds
           THEN /\ Respond(p, DeleteResponse(404, l.messageId, l.userId))
                /\ Finish(p)
           ELSE IF messages[l.messageId].sender # l.userId
           THEN /\ Respond(p, DeleteResponse(403, l.messageId, l.userId))
                /\ Finish(p)
           ELSE /\ loc' = [loc EXCEPT ![p] =
                              [op |-> l.op, userId |-> l.userId,
                               messageId |-> l.messageId,
                               message |-> messages[l.messageId],
                               chatId |-> messages[l.messageId].chatId]]
                /\ pc' = [pc EXCEPT ![p] = "delete_save"]
                /\ UNCHANGED responded
    /\ UNCHANGED <<socketVars, showOnlineStatus, dbVars, preview, emitLog,
                   seenEval, ops>>

\* message.save() of the delete.  Assigning [] to reactions that were read
\* empty may leave the array unmodified for the object mapper: the save
\* then neither writes the array nor checks its version.
DeleteSaveOutcomes(readV, storedV, readReactions) ==
    SaveOutcomes(readV, storedV)
        \cup (IF readReactions = <<>> THEN {"savedUnmodified"} ELSE {})

\* A delete that keeps the reactions.
DeletedKeepsReactions(msg, outcome, readV) ==
    [msg EXCEPT !.messageType = "deleted", !.text = NoText, !.image = FALSE]

\* Lines 806-810: what the save writes to the stored message.
Deleted(msg, outcome, readV) ==
    IF outcome = "savedUnmodified"
    THEN [msg EXCEPT !.messageType = "deleted", !.text = NoText,
                     !.image = FALSE]
    ELSE [msg EXCEPT !.messageType = "deleted", !.text = NoText,
                     !.image = FALSE, !.reactions = <<>>, !.v = readV + 1]

\* A payload that carries the message as it was read.
DeletedMessageDataAsRead(l) ==
    [messageId |-> l.messageId, chatId |-> l.chatId, messageType |-> "deleted",
     text |-> l.message.text, image |-> l.message.image,
     sender |-> l.message.sender, createdAt |-> l.message.createdAt,
     reactions |-> l.message.reactions,
     seen |-> l.message.seen, seenAt |-> l.message.seenAt]

\* Lines 814-827: the payload of messageDeleted.
DeletedMessageData(l) ==
    [messageId |-> l.messageId, chatId |-> l.chatId, messageType |-> "deleted",
     text |-> NoText, image |-> FALSE, sender |-> l.message.sender,
     createdAt |-> l.message.createdAt, reactions |-> <<>>,
     seen |-> l.message.seen, seenAt |-> l.message.seenAt]

\* Lines 810-833: the save is applied, messageDeleted goes to the room and
\* the chat lookup is issued.  A rejected save is answered by the error
\* handler.
DeleteSave(p, outcome) ==
    /\ pc[p] = "delete_save"
    /\ LET l == loc[p]
       IN  /\ outcome \in DeleteSaveOutcomes(l.message.v,
                                             messages[l.messageId].v,
                                             l.message.reactions)
           /\ IF outcome = "versionError"
              THEN /\ Respond(p, DeleteResponse(500, l.messageId, l.userId))
                   /\ Finish(p)
                   /\ UNCHANGED <<messages, emitLog>>
              ELSE /\ messages' = [messages EXCEPT ![l.messageId] =
                                      Deleted(@, outcome, l.message.v)]
                   /\ emitLog' = Append(emitLog,
                                        Emit("messageDeleted",
                                             ChatRoom(l.chatId), l.messageId,
                                             DeletedMessageData(l)))
                   /\ pc' = [pc EXCEPT ![p] = "delete_findChat"]
                   /\ UNCHANGED <<loc, responded>>
    /\ UNCHANGED <<socketVars, showOnlineStatus, chats, preview, seenEval, ops>>

\* Lines 833-835: the chat is read; its latestMessage is replaced unless it
\* already is the sentinel.
DeleteFindChat(p) ==
    /\ pc[p] = "delete_findChat"
    /\ LET l == loc[p]
       IN  IF l.chatId \in ChatIds
              /\ chats[l.chatId].latestMessage.text # DeletedText
           THEN /\ pc' = [pc EXCEPT ![p] = "delete_updateChat"]
                /\ UNCHANGED <<loc, responded>>
           ELSE /\ Respond(p, DeleteResponse(200, l.messageId, l.userId))
                /\ Finish(p)
    /\ UNCHANGED <<socketVars, showOnlineStatus, dbVars, preview, emitLog,
                   seenEval, ops>>

\* Lines 835-852: the chat's latestMessage becomes the sentinel, the caches
\* are invalidated and the request is answered.
DeleteUpdateChat(p) ==
    /\ pc[p] = "delete_updateChat"
    /\ LET l == loc[p]
       IN  /\ chats' = [chats EXCEPT ![l.chatId].latestMessage =
                           [set |-> TRUE, text |-> DeletedText,
                            sender |-> l.userId]]
           /\ Respond(p, DeleteResponse(200, l.messageId, l.userId))
    /\ Finish(p)
    /\ UNCHANGED <<socketVars, showOnlineStatus, messages, preview, emitLog,
                   seenEval, ops>>

(***************************************************************************)
(* editMessage (chat.ts:856-986).                                          *)
(***************************************************************************)
BlankText == "  "
PaddedText == " edited "
EditedText == "edited"
EditInputs == {NoText, BlankText, PaddedText, EditedText}

\* Line 910: the edit window, and ages of a message, in milliseconds, around
\* it.
fifteenMinutesInMs == 15 * 60 * 1000
EditAges == {0, fifteenMinutesInMs, fifteenMinutesInMs + 1}

\* text.trim() on the texts above.
Trim(text) ==
    CASE text = BlankText -> NoText
      [] text = PaddedText -> EditedText
      [] OTHER -> text

EditResponse(status, id, by) ==
    [op |-> "editMessage", status |-> status, id |-> id, by |-> by,
     other |-> NoUserId]

\* Lines 857-879: the request is validated and the message lookup issued.
\* age is what Date.now() - createdAt will be at line 912; it is drawn here
\* and kept with the request.
EditStart(p, userId, messageId, text, age) ==
    /\ CanStart(p)
    /\ ops' = ops + 1
    /\ IF userId = NoUserId
       THEN /\ Respond(p, EditResponse(401, messageId, userId))
            /\ UNCHANGED <<pc, loc>>
       ELSE IF messageId = None \/ text = NoText \/ Trim(text) = NoText
       THEN /\ Respond(p, EditResponse(400, messageId, userId))
            /\ UNCHANGED <<pc, loc>>
       ELSE /\ pc' = [pc EXCEPT ![p] = "edit_find"]
            /\ loc' = [loc EXCEPT ![p] =
                          [op |-> "editMessage", userId |-> userId,
                           messageId |-> messageId, text |-> text,
                           age |-> age]]
            /\ UNCHANGED responded
    /\ UNCHANGED <<socketVars, showOnlineStatus, dbVars, preview, emitLog,
                   seenEval>>

\* An edit window that closes at 15 minutes sharp.
EditRefusedAtWindow(msg, age) ==
    \/ msg.messageType = "deleted"
    \/ (msg.messageType = "image" /\ msg.text = NoText)
    \/ age >= fifteenMinutesInMs

\* Lines 892-916: a deleted message, an image-only message and a message
\* older than the edit window are not edited.
EditRefused(msg, age) ==
    \/ msg.messageType = "deleted"
    \/ (msg.messageType = "image" /\ msg.text = NoText)
    \/ age > fifteenMinutesInMs

\* Lines 879-922: the message is read and the checks are made on it; the
\* text is set on the document read and the save issued.
EditFind(p) ==
    /\ pc[p] = "edit_find"
    /\ LET l == loc[p]
       IN  IF l.messageId \notin MsgIds
           THEN /\ Respond(p, EditResponse(404, l.messageId, l.userId))
                /\ Finish(p)
           ELSE IF messages[l.messageId].sender # l.userId
           THEN /\ Respond(p, EditResponse(403, l.messageId, l.userId))
                /\ Finish(p)
           ELSE IF EditRefused(messages[l.messageId], l.age)
           THEN /\ Respond(p, EditResponse(400, l.messageId, l.userId))
                /\ Finish(p)
           ELSE /\ loc' = [loc EXCEPT ![p] =
                              [op |-> l.op, userId |-> l.userId,
                               messageId |-> l.messageId, text |-> l.text,
                               age |-> l.age,
                               message |-> [messages[l.messageId] EXCEPT
                                               !.text = Trim(l.text),
                                               !.isEdited = TRUE,
                                               !.editedAt = TRUE],
                               chatId |-> messages[l.messageId].chatId]]
                /\ pc' = [pc EXCEPT ![p] = "edit_save"]
                /\ UNCHANGED responded
    /\ UNCHANGED <<socketVars, showOnlineStatus, dbVars, preview, emitLog,
                   seenEval, ops>>

\* A save that writes the whole document the request holds.
EditedWholeDocument(msg, doc) == [doc EXCEPT !.v = msg.v]

\* Lines 919-922: what the save writes to the stored message: the paths set
\* on the document, text, isEdited and editedAt.
Edited(msg, doc) ==
    [msg EXCEPT !.text = doc.text, !.isEdited = doc.isEdited,
                !.editedAt = doc.editedAt]

\* A payload that carries the text as the request gave it.
EditedMessageDataUntrimmed(l) ==
    [messageId |-> l.messageId, chatId |-> l.chatId, text |-> l.text,
     isEdited |-> TRUE, editedAt |-> l.message.editedAt,
     messageType |-> l.message.messageType,
     sender |-> l.message.sender, createdAt |-> l.message.createdAt,
     reactions |-> l.message.reactions, seen |-> l.message.seen,
     seenAt |-> l.message.seenAt, image |-> l.message.image,
     replyTo |-> l.message.replyTo,
     repliedMessage |-> l.message.repliedMessage]

\* Lines 926-943: the payload of messageEdited, taken from the document the
\* request holds.
EditedMessageData(l) ==
    [messageId |-> l.messageId, chatId |-> l.chatId, text |-> l.message.text,
     isEdited |-> TRUE, editedAt |-> l.message.editedAt,
     messageType |-> l.message.messageType,
     sender |-> l.message.sender, createdAt |-> l.message.createdAt,
     reactions |-> l.message.reactions, seen |-> l.message.seen,
     seenAt |-> l.message.seenAt, image |-> l.message.image,
     replyTo |-> l.message.replyTo,
     repliedMessage |-> l.message.repliedMessage]

\* Lines 922-949: the save is applied, messageEdited goes to the room and
\* the chat lookup is issued.
EditSave(p) ==
    /\ pc[p] = "edit_save"
    /\ LET l == loc[p]
       IN  /\ messages' = [messages EXCEPT ![l.messageId] =
                              Edited(@, l.message)]
           /\ emitLog' = Append(emitLog,
                                Emit("messageEdited", ChatRoom(l.chatId),
                                     l.messageId, EditedMessageData(l)))
    /\ pc' = [pc EXCEPT ![p] = "edit_findChat"]
    /\ UNCHANGED <<socketVars, showOnlineStatus, chats, loc, preview, responded,
                   seenEval, ops>>

\* Lines 949-962: the chat is read, messageEdited goes to the connection of
\* every chat user that resolves, and the latest message is looked up.
EditFindChat(p) ==
    /\ pc[p] = "edit_findChat"
    /\ LET l == loc[p]
       IN  emitLog' = emitLog \o
               (IF l.chatId \in ChatIds
                THEN DirectLegs(chats[l.chatId].users, "messageEdited",
                                l.messageId, EditedMessageData(l))
                ELSE <<>>)
    /\ pc' = [pc EXCEPT ![p] = "edit_findLatest"]
    /\ UNCHANGED <<socketVars, showOnlineStatus, dbVars, loc, preview,
                   responded, seenEval, ops>>

\* A lookup that sorts by createdAt ascending.
LatestOfAscending(chatId) ==
    LET ofChat == {m \in MsgIds : messages[m].chatId = chatId}
    IN  IF ofChat = {} THEN None
        ELSE CHOOSE m \in ofChat :
                 \A n \in ofChat : messages[m].createdAt <= messages[n].createdAt

\* Messages.findOne({ chatId }).sort({ createdAt: -1 })
LatestOf(chatId) ==
    LET ofChat == {m \in MsgIds : messages[m].chatId = chatId}
    IN  IF ofChat = {} THEN None
        ELSE CHOOSE m \in ofChat :
                 \A n \in ofChat : messages[n].createdAt <= messages[m].createdAt

\* Lines 960-965: the latest message of the chat is read; the chat is
\* updated when it is the edited message, otherwise the request is answered.
EditFindLatest(p) ==
    /\ pc[p] = "edit_findLatest"
    /\ LET l == loc[p]
       IN  IF LatestOf(l.chatId) = l.messageId
           THEN /\ pc' = [pc EXCEPT ![p] = "edit_updateChat"]
                /\ UNCHANGED <<loc, responded>>
           ELSE /\ Respond(p, EditResponse(200, l.messageId, l.userId))
                /\ Finish(p)
    /\ UNCHANGED <<socketVars, showOnlineStatus, dbVars, preview, emitLog,
                   seenEval, ops>>

\* Lines 965-985: the chat's latestMessage takes the edited text, the caches
\* are invalidated and the request is answered.
EditUpdateChat(p) ==
    /\ pc[p] = "edit_updateChat"
    /\ LET l == loc[p]
       IN  /\ chats' = [chats EXCEPT ![l.chatId].latestMessage =
                           [set |-> TRUE, text |-> l.message.text,
                            sender |-> l.userId]]
           /\ Respond(p, EditResponse(200, l.messageId, l.userId))
    /\ Finish(p)
    /\ UNCHANGED <<socketVars, showOnlineStatus, messages, preview, emitLog,
                   seenEval, ops>>

(***************************************************************************)
(* Initial states and specifications.                                      *)
(***************************************************************************)
InitSockets ==
    /\ sockets = {}
    /\ nextSocket = 0
    /\ handshake = [s \in SocketIds |-> NoUserId]
    /\ rooms = [s \in SocketIds |-> {}]
    /\ userSocketMap = {}
    /\ lastConnect = [u \in Users |-> None]
    /\ onlineSnapshot = [users |-> {}, to |-> {}]

InitRequests ==
    /\ pc = [p \in Procs |-> "idle"]
    /\ loc = [p \in Procs |-> Idle]
    /\ preview = <<>>
    /\ emitLog = <<>>
    /\ responded = <<>>
    /\ seenEval = <<>>
    /\ ops = 0

\* The server after start-up: no connection, empty collections.
Init ==
    /\ InitSockets
    /\ InitRequests
    /\ showOnlineStatus = [u \in Users |-> TRUE]
    /\ chats = <<>>
    /\ messages = <<>>

\* The registry on its own, for any privacy settings held by the profile
\* service.
InitRegistry ==
    /\ InitSockets
    /\ InitRequests
    /\ showOnlineStatus \in [Users -> BOOLEAN]
    /\ chats = <<>>
    /\ messages = <<>>

NextRegistry ==
    \/ \E userId \in HandshakeIds : Connect(userId)
    \/ \E s \in SocketIds : Disconnect(s)
    \/ \E s \in SocketIds, c \in RoomIds : JoinChat(s, c)
    \/ \E s \in SocketIds, c \in RoomIds : LeaveChat(s, c)

SpecRegistry == InitRegistry /\ [][NextRegistry]_vars

\* Typing indicators while connections come and go and join and leave rooms.
NextTyping ==
    \/ \E userId \in Users : Connect(userId)
    \/ \E s \in SocketIds : Disconnect(s)
    \/ \E s \in SocketIds, c \in RoomIds : JoinChat(s, c)
    \/ \E s \in SocketIds, c \in RoomIds : LeaveChat(s, c)
    \/ \E s \in SocketIds, room \in TypingRooms, userId \in Users :
           Typing(s, room, userId)
    \/ \E s \in SocketIds, room \in TypingRooms, userId \in Users :
           StopTyping(s, room, userId)

SpecTyping == InitRegistry /\ [][NextTyping]_vars

NextChat ==
    \/ \E p \in Procs, a \in Users, b \in Users \cup {NoUserId} :
           CreateChatStart(p, a, b)
    \/ \E p \in Procs : CreateChatFindOne(p)
    \/ \E p \in Procs : CreateChatCreate(p)

SpecChat == Init /\ [][NextChat]_vars

\* Two users have a chat; nobody is connected and nothing was sent yet.
InitSend ==
    /\ InitSockets
    /\ InitRequests
    /\ showOnlineStatus = [u \in Users |-> TRUE]
    /\ chats = <<NewChat("u1", "u2")>>
    /\ messages = <<>>

SendSteps(p) ==
    \/ SendFindChat(p)
    \/ \E a, b \in PrivacyResults : SendPrivacy(p, a, b)
    \/ SendReply(p)
    \/ SendSave(p)
    \/ SendRefetch(p)
    \/ SendUpdateChat(p)

PreviewSteps ==
    \/ \E m \in 1..MaxMsgs, found \in BOOLEAN : PreviewFetch(m, found)
    \/ \E m \in 1..MaxMsgs : PreviewUpdate(m)

\* Sending while connections come and go and join and leave the room of the
\* chat.
NextSend ==
    \/ \E userId \in Users : Connect(userId)
    \/ \E s \in SocketIds : Disconnect(s)
    \/ \E s \in SocketIds, c \in RoomIds : JoinChat(s, c)
    \/ \E s \in SocketIds, c \in RoomIds : LeaveChat(s, c)
    \/ \E senderId \in Users :
           ops < MaxSends /\ SendStart("p1", senderId, 1, PlainText, FALSE, None)
    \/ SendFindChat("p1")
    \/ \E b \in {"on", "off"} : SendPrivacy("p1", "on", b)
    \/ SendSave("p1")
    \/ SendRefetch("p1")
    \/ SendUpdateChat("p1")

SpecSend == InitSend /\ [][NextSend]_vars

\* Both users are connected and registered, each on one connection.
InitConnected ==
    /\ sockets = {1, 2}
    /\ nextSocket = 2
    /\ handshake = [s \in SocketIds |->
                       IF s = 1 THEN "u1" ELSE IF s = 2 THEN "u2" ELSE NoUserId]
    /\ rooms = [s \in SocketIds |->
                   IF s = 1 THEN {SockRoom(1), UserRoom("u1")}
                   ELSE IF s = 2 THEN {SockRoom(2), UserRoom("u2")}
                   ELSE {}]
    /\ userSocketMap = {<<"u1", 1>>, <<"u2", 2>>}
    /\ lastConnect = [u \in Users |-> IF u = "u1" THEN 1 ELSE 2]
    /\ onlineSnapshot = [users |-> {"u1", "u2"}, to |-> {1, 2}]

InitPreview ==
    /\ InitConnected
    /\ InitRequests
    /\ showOnlineStatus = [u \in Users |-> TRUE]
    /\ chats = <<NewChat("u1", "u2")>>
    /\ messages = <<>>

\* Sending with the background preview task, every input of sendMessage
\* included.
NextPreview ==
    \/ \E senderId \in Users \cup {NoUserId}, chatId \in {None, 1, 2},
          text \in {NoText, PlainText, UrlText}, imageFile \in BOOLEAN,
          replyTo \in {None, 1} :
           /\ ops < MaxSends
           /\ SendStart("p1", senderId, chatId, text, imageFile, replyTo)
    \/ SendSteps("p1")
    \/ PreviewSteps

SpecPreview == InitPreview /\ [][NextPreview]_vars

\* Sending with the background preview task while connections come and go.
\* The preview task of a message is a promise chain of the event loop: the
\* fetch settles within its 5000 ms timeout (chat.ts:25-26) and each
\* continuation runs once its awaited call has settled, so every step of
\* the task that stays possible is eventually taken.
NextPreviewFair ==
    \/ \E userId \in Users : Connect(userId)
    \/ \E s \in SocketIds : Disconnect(s)
    \/ \E senderId \in Users, text \in {PlainText, UrlText},
          imageFile \in BOOLEAN :
           /\ ops < MaxSends
           /\ SendStart("p1", senderId, 1, text, imageFile, None)
    \/ SendFindChat("p1")
    \/ \E b \in {"on", "off"} : SendPrivacy("p1", "on", b)
    \/ SendSave("p1")
    \/ SendRefetch("p1")
    \/ SendUpdateChat("p1")
    \/ PreviewSteps

SpecPreviewFair ==
    /\ InitSend
    /\ [][NextPreviewFair]_vars
    /\ \A m \in 1..MaxMsgs :
           /\ WF_vars(\E found \in BOOLEAN : PreviewFetch(m, found))
           /\ WF_vars(PreviewUpdate(m))


\* Sending and reading a chat side by side, for every answer of the profile
\* service, while the receiver joins and leaves the room of the chat.
NextSeen ==
    \/ \E c \in RoomIds : JoinChat(2, c)
    \/ \E c \in RoomIds : LeaveChat(2, c)
    \/ SendStart("p1", "u1", 1, PlainText, FALSE, None)
    \/ SendFindChat("p1")
    \/ \E a, b \in {"rejected", "on", "off"} : SendPrivacy("p1", a, b)
    \/ SendSave("p1")
    \/ SendRefetch("p1")
    \/ SendUpdateChat("p1")
    \/ \E userId \in Users, page \in {1, 2} : GetStart("p2", userId, 1, page)
    \/ GetFindChat("p2")
    \/ \E a \in {"rejected", "on", "off"} : GetPrivacyCurrent("p2", a)
    \/ \E b \in {"rejected", "on", "off"} : GetPrivacyOther("p2", b)
    \/ GetFind("p2")
    \/ GetUpdateMany("p2")
    \/ GetList("p2")

SpecSeen == InitPreview /\ [][NextSeen]_vars

\* Both users are connected and u1 has sent one message that u2 has not seen.
FirstMessage ==
    [chatId |-> 1, sender |-> "u1", seen |-> FALSE, seenAt |-> FALSE,
     replyTo |-> None, repliedMessage |-> NoReplied, image |-> FALSE,
     text |-> PlainText, messageType |-> "text", reactions |-> <<>>,
     linkPreview |-> FALSE, isEdited |-> FALSE, editedAt |-> FALSE,
     createdAt |-> 1, v |-> 0]

InitReact ==
    /\ InitConnected
    /\ pc = [p \in Procs |-> "idle"]
    /\ loc = [p \in Procs |-> Idle]
    /\ emitLog = <<>>
    /\ responded = <<>>
    /\ ops = 0
    /\ showOnlineStatus = [u \in Users |-> TRUE]
    /\ chats = <<[users |-> <<"u1", "u2">>,
                  latestMessage |-> [set |-> TRUE, text |-> PlainText,
                                     sender |-> "u1"]]>>
    /\ messages = <<FirstMessage>>
    /\ preview = <<NoPreview>>
    /\ seenEval = <<NoEval>>

\* Reaction toggles through both entry points, side by side.
NextReact ==
    \/ \E p \in Procs, userId \in Users \cup {NoUserId}, messageId \in {None, 1, 2},
          emoji \in Emojis \cup {NoEmoji} :
           ReactStart(p, userId, messageId, emoji)
    \/ \E p \in Procs, s \in SocketIds, messageId \in {None, 1, 2},
          emoji \in Emojis \cup {NoEmoji} :
           SocketReactStart(p, s, messageId, emoji)
    \/ \E p \in Procs : ReactFind(p)
    \/ \E p \in Procs, outcome \in {"saved", "versionError"} : ReactSave(p, outcome)
    \/ \E p \in Procs : SocketReactFindChat(p)

SpecReact == InitReact /\ [][NextReact]_vars

\* Both users are connected; u1 has sent one message in each of two chats
\* with u2, and u2 has seen neither.
InitBatch ==
    /\ InitConnected
    /\ pc = [p \in Procs |-> "idle"]
    /\ loc = [p \in Procs |-> Idle]
    /\ emitLog = <<>>
    /\ responded = <<>>
    /\ ops = 0
    /\ showOnlineStatus = [u \in Users |-> TRUE]
    /\ chats = <<[users |-> <<"u1", "u2">>,
                  latestMessage |-> [set |-> TRUE, text |-> PlainText,
                                     sender |-> "u1"]],
                 [users |-> <<"u1", "u2">>,
                  latestMessage |-> [set |-> TRUE, text |-> PlainText,
                                     sender |-> "u1"]]>>
    /\ messages = <<FirstMessage, [FirstMessage EXCEPT !.chatId = 2, !.createdAt = 2]>>
    /\ preview = <<NoPreview, NoPreview>>
    /\ seenEval = <<NoEval, NoEval>>

\* Reads of a chat by either user, side by side with each other, with a
\* send into the chat and with disconnects.
NextBatch ==
    \/ \E s \in SocketIds : Disconnect(s)
    \/ SendStart("p1", "u1", 1, PlainText, FALSE, None)
    \/ SendFindChat("p1")
    \/ SendPrivacy("p1", "on", "on")
    \/ SendSave("p1")
    \/ SendRefetch("p1")
    \/ SendUpdateChat("p1")
    \/ \E p \in Procs, userId \in Users, page \in {1, 2} :
           GetStart(p, userId, 1, page)
    \/ \E p \in Procs : GetFindChat(p)
    \/ \E p \in Procs, a \in {"on", "off"} : GetPrivacyCurrent(p, a)
    \/ \E p \in Procs, b \in {"on", "off"} : GetPrivacyOther(p, b)
    \/ \E p \in Procs : GetFind(p)
    \/ \E p \in Procs : GetUpdateMany(p)
    \/ \E p \in Procs : GetList(p)

SpecBatch == InitBatch /\ [][NextBatch]_vars

\* The reaction arrays a message can hold: at most one entry per user.
ReactionOf == [userId : Users, emoji : Emojis]

ReactionSets ==
    {<<>>} \cup {<<r>> : r \in ReactionOf}
           \cup {<<r[1], r[2]>> :
                     r \in {q \in ReactionOf \X ReactionOf :
                                q[1].userId # q[2].userId}}

\* Both users are connected and the first message holds any reactions.
InitToggle ==
    /\ InitConnected
    /\ pc = [p \in Procs |-> "idle"]
    /\ loc = [p \in Procs |-> Idle]
    /\ emitLog = <<>>
    /\ responded = <<>>
    /\ ops = 0
    /\ showOnlineStatus = [u \in Users |-> TRUE]
    /\ chats = <<[users |-> <<"u1", "u2">>,
                  latestMessage |-> [set |-> TRUE, text |-> PlainText,
                                     sender |-> "u1"]]>>
    /\ \E r \in ReactionSets :
           messages = <<[FirstMessage EXCEPT !.reactions = r]>>
    /\ preview = <<NoPreview>>
    /\ seenEval = <<NoEval>>

\* Reaction toggles one after the other, through either entry point.
NextToggle ==
    \/ \E userId \in Users, emoji \in Emojis :
           ReactStart("p1", userId, 1, emoji)
    \/ \E s \in SocketIds, emoji \in Emojis :
           SocketReactStart("p1", s, 1, emoji)
    \/ ReactFind("p1")
    \/ ReactSave("p1", "saved")
    \/ SocketReactFindChat("p1")

SpecToggle == InitToggle /\ [][NextToggle]_vars

\* Both users are connected; the first message, sent by u1, holds a
\* reaction of u2 or none.
InitDelete ==
    /\ InitConnected
    /\ pc = [p \in Procs |-> "idle"]
    /\ loc = [p \in Procs |-> Idle]
    /\ emitLog = <<>>
    /\ responded = <<>>
    /\ ops = 0
    /\ showOnlineStatus = [u \in Users |-> TRUE]
    /\ chats = <<[users |-> <<"u1", "u2">>,
                  latestMessage |-> [set |-> TRUE, text |-> PlainText,
                                     sender |-> "u1"]]>>
    /\ \E r \in {<<>>, <<[userId |-> "u2", emoji |-> "like"]>>} :
           messages = <<[FirstMessage EXCEPT !.reactions = r]>>
    /\ preview = <<NoPreview>>
    /\ seenEval = <<NoEval>>

DeleteSteps(p) ==
    \/ DeleteFind(p)
    \/ \E outcome \in {"saved", "savedUnmodified", "versionError"} :
           DeleteSave(p, outcome)
    \/ DeleteFindChat(p)
    \/ DeleteUpdateChat(p)

\* Deletes and reaction toggles on the first message, side by side.
NextDelete ==
    \/ \E p \in Procs, userId \in Users \cup {NoUserId}, messageId \in {None, 1, 2} :
           DeleteStart(p, userId, messageId)
    \/ \E p \in Procs : DeleteSteps(p)
    \/ \E p \in Procs, userId \in Users, emoji \in Emojis :
           ReactStart(p, userId, 1, emoji)
    \/ \E p \in Procs : ReactFind(p)
    \/ \E p \in Procs, outcome \in {"saved", "versionError"} : ReactSave(p, outcome)

SpecDelete == InitDelete /\ [][NextDelete]_vars

EditSteps(p) ==
    \/ EditFind(p)
    \/ EditSave(p)
    \/ EditFindChat(p)
    \/ EditFindLatest(p)
    \/ EditUpdateChat(p)

\* A delete of the first message by its sender side by side with edits of
\* it.
NextEdit ==
    \/ DeleteStart("p1", "u1", 1)
    \/ DeleteSteps("p1")
    \/ \E userId \in Users \cup {NoUserId}, messageId \in {None, 1, 2},
          text \in EditInputs, age \in EditAges :
           EditStart("p2", userId, messageId, text, age)
    \/ EditSteps("p2")

SpecEdit == InitDelete /\ [][NextEdit]_vars

\* What sendMessage can have saved as the second message of the chat: text,
\* image or both, as a reply to the first message or not.
SentKinds ==
    {k \in [text : {NoText, PlainText}, imageFile : BOOLEAN, replyTo : {None, 1}] :
        k.text # NoText \/ k.imageFile}

SentMessage(k) ==
    [MessageData([chatId |-> 1, senderId |-> "u1", isReceiverInChatRoom |-> FALSE,
                  senderPrivacy |-> "on", receiverPrivacy |-> "on",
                  replyTo |-> k.replyTo, imageFile |-> k.imageFile,
                  text |-> k.text],
                 IF k.replyTo = None THEN NoReplied
                 ELSE [id |-> 1, text |-> PlainText, sender |-> "u1",
                       messageType |-> "text", image |-> FALSE])
         EXCEPT !.createdAt = 2]

\* Both users are connected; u1 has sent a text message and then a second
\* message of any kind.
InitEditKinds ==
    /\ InitConnected
    /\ pc = [p \in Procs |-> "idle"]
    /\ loc = [p \in Procs |-> Idle]
    /\ emitLog = <<>>
    /\ responded = <<>>
    /\ ops = 0
    /\ showOnlineStatus = [u \in Users |-> TRUE]
    /\ \E k \in SentKinds :
           /\ messages = <<FirstMessage, SentMessage(k)>>
           /\ chats = <<[users |-> <<"u1", "u2">>,
                         latestMessage |->
                             [set |-> TRUE,
                              text |-> LatestMessageText(k.text, k.imageFile,
                                                         k.replyTo),
                              sender |-> "u1"]]>>
    /\ preview = <<NoPreview, NoPreview>>
    /\ seenEval = <<NoEval, NoEval>>

\* Edits of either message, of every age, by either user, after or beside a
\* delete of the second message.
NextEditKinds ==
    \/ DeleteStart("p1", "u1", 2)
    \/ DeleteSteps("p1")
    \/ \E userId \in Users \cup {NoUserId}, messageId \in {None, 1, 2, 3},
          text \in EditInputs, age \in EditAges :
           EditStart("p2", userId, messageId, text, age)
    \/ EditSteps("p2")

SpecEditKinds == InitEditKinds /\ [][NextEditKinds]_vars

\* No connection yet; u1 has sent one text message to u2.
InitEditLegs ==
    /\ InitSockets
    /\ pc = [p \in Procs |-> "idle"]
    /\ loc = [p \in Procs |-> Idle]
    /\ emitLog = <<>>
    /\ responded = <<>>
    /\ ops = 0
    /\ showOnlineStatus = [u \in Users |-> TRUE]
    /\ chats = <<[users |-> <<"u1", "u2">>,
                  latestMessage |-> [set |-> TRUE, text |-> PlainText,
                                     sender |-> "u1"]]>>
    /\ messages = <<FirstMessage>>
    /\ preview = <<NoPreview>>
    /\ seenEval = <<NoEval>>

\* Edits while connections come and go and join the room of the chat.
NextEditLegs ==
    \/ \E userId \in Users : Connect(userId)
    \/ \E s \in SocketIds : Disconnect(s)
    \/ \E s \in SocketIds, c \in RoomIds : JoinChat(s, c)
    \/ \E userId \in Users, messageId \in {1, 2},
          text \in {BlankText, PaddedText}, age \in EditAges :
           /\ ops < MaxSends
           /\ EditStart("p1", userId, messageId, text, age)
    \/ EditSteps("p1")

SpecEditLegs == InitEditLegs /\ [][NextEditLegs]_vars

\* One operation on the chat, a send, an edit of the first message or a
\* reaction toggle on it through either entry point, while connections come
\* and go.
NextChurn ==
    \/ \E userId \in Users : Connect(userId)
    \/ \E s \in SocketIds : Disconnect(s)
    \/ \E senderId \in Users :
           ops < MaxSends /\ SendStart("p1", senderId, 1, PlainText, FALSE, None)
    \/ SendFindChat("p1")
    \/ \E b \in {"on", "off"} : SendPrivacy("p1", "on", b)
    \/ SendSave("p1")
    \/ SendRefetch("p1")
    \/ SendUpdateChat("p1")
    \/ ops < MaxSends /\ EditStart("p1", "u1", 1, PaddedText, 0)
    \/ EditSteps("p1")
    \/ \E userId \in Users :
           ops < MaxSends /\ ReactStart("p1", userId, 1, "like")
    \/ \E s \in SocketIds :
           ops < MaxSends /\ SocketReactStart("p1", s, 1, "like")
    \/ ReactFind("p1")
    \/ ReactSave("p1", "saved")
    \/ SocketReactFindChat("p1")

SpecChurn == InitEditLegs /\ [][NextChurn]_vars

\* Both users are connected; u1 has one chat with u2, where u1 has sent one
\* message, and one chat with a third user.
InitReject ==
    /\ InitConnected
    /\ pc = [p \in Procs |-> "idle"]
    /\ loc = [p \in Procs |-> Idle]
    /\ emitLog = <<>>
    /\ responded = <<>>
    /\ ops = 0
    /\ showOnlineStatus = [u \in Users |-> TRUE]
    /\ chats = <<[users |-> <<"u1", "u2">>,
                  latestMessage |-> [set |-> TRUE, text |-> PlainText,
                                     sender |-> "u1"]],
                 NewChat("u1", "u3")>>
    /\ messages = <<FirstMessage>>
    /\ preview = <<NoPreview>>
    /\ seenEval = <<NoEval>>

\* Sends, deletes and edits with every input, the ones that are turned down
\* included.
NextReject ==
    \/ \E senderId \in Users \cup {NoUserId}, chatId \in {None, 1, 2, 3},
          text \in {NoText, PlainText}, imageFile \in BOOLEAN :
           SendStart("p1", senderId, chatId, text, imageFile, None)
    \/ SendFindChat("p1")
    \/ \E b \in {"on", "off"} : SendPrivacy("p1", "on", b)
    \/ SendSave("p1")
    \/ SendRefetch("p1")
    \/ SendUpdateChat("p1")
    \/ \E userId \in Users \cup {NoUserId}, messageId \in {None, 1, 2, 3} :
           DeleteStart("p2", userId, messageId)
    \/ DeleteSteps("p2")
    \/ \E userId \in Users \cup {NoUserId}, messageId \in {None, 1, 2, 3},
          text \in {NoText, EditedText}, age \in {0} :
           EditStart("p2", userId, messageId, text, age)
    \/ EditSteps("p2")

SpecReject == InitReject /\ [][NextReject]_vars

\* u1 and u2 are connected; the one chat is between u1 and a third user, and
\* u1 has sent one message in it: u2 is not a participant.
InitOutsider ==
    /\ InitConnected
    /\ pc = [p \in Procs |-> "idle"]
    /\ loc = [p \in Procs |-> Idle]
    /\ emitLog = <<>>
    /\ responded = <<>>
    /\ ops = 0
    /\ showOnlineStatus = [u \in Users |-> TRUE]
    /\ chats = <<[users |-> <<"u1", "u3">>,
                  latestMessage |-> [set |-> TRUE, text |-> PlainText,
                                     sender |-> "u1"]]>>
    /\ messages = <<FirstMessage>>
    /\ preview = <<NoPreview>>
    /\ seenEval = <<NoEval>>

\* What u2 can ask of the chat: a send, a read, and reaction toggles through
\* both entry points.
NextOutsider ==
    \/ \E p \in Procs : SendStart(p, "u2", 1, PlainText, FALSE, None)
    \/ \E p \in Procs : SendFindChat(p)
    \/ \E p \in Procs : GetStart(p, "u2", 1, 1)
    \/ \E p \in Procs : GetFindChat(p)
    \/ \E p \in Procs, emoji \in Emojis : ReactStart(p, "u2", 1, emoji)
    \/ \E p \in Procs, emoji \in Emojis : SocketReactStart(p, 2, 1, emoji)
    \/ \E p \in Procs : ReactFind(p)
    \/ \E p \in Procs, outcome \in {"saved", "versionError"} : ReactSave(p, outcome)
    \/ \E p \in Procs : SocketReactFindChat(p)

SpecOutsider == InitOutsider /\ [][NextOutsider]_vars

\* Deletes and edits, by their sender, of the older and of the latest
\* message of the chat, side by side with each other and with a send by the
\* other user.
NextLatest ==
    \/ \E p \in Procs, messageId \in {1, 2} : DeleteStart(p, "u1", messageId)
    \/ \E p \in Procs : DeleteSteps(p)
    \/ \E p \in Procs, messageId \in {1, 2} :
           EditStart(p, "u1", messageId, EditedText, 0)
    \/ \E p \in Procs : EditSteps(p)
    \/ \E p \in Procs : SendStart(p, "u2", 1, PlainText, FALSE, None)
    \/ \E p \in Procs : SendFindChat(p)
    \/ \E p \in Procs : SendPrivacy(p, "on", "on")
    \/ \E p \in Procs : SendSave(p)
    \/ \E p \in Procs : SendRefetch(p)
    \/ \E p \in Procs : SendUpdateChat(p)

SpecLatest == InitEditKinds /\ [][NextLatest]_vars

\* Two sends into the chat, side by side, by either user.
NextTwoSends ==
    \/ \E p \in Procs, senderId \in Users, text \in {PlainText, EditedText} :
           SendStart(p, senderId, 1, text, FALSE, None)
    \/ \E p \in Procs : SendFindChat(p)
    \/ \E p \in Procs : SendPrivacy(p, "on", "on")
    \/ \E p \in Procs : SendSave(p)
    \/ \E p \in Procs : SendRefetch(p)
    \/ \E p \in Procs : SendUpdateChat(p)

SpecTwoSends == InitPreview /\ [][NextTwoSends]_vars

\* A reply by u2 to either message of the chat, side by side with, before
\* or after an edit, a delete, a reaction toggle or a read of the chat.
NextSnapshot ==
    \/ \E replyTo \in {1, 2} : SendStart("p1", "u2", 1, PlainText, FALSE, replyTo)
    \/ SendFindChat("p1")
    \/ SendPrivacy("p1", "on", "on")
    \/ SendReply("p1")
    \/ SendSave("p1")
    \/ SendRefetch("p1")
    \/ SendUpdateChat("p1")
    \/ \E messageId \in {1, 2} : DeleteStart("p2", "u1", messageId)
    \/ DeleteSteps("p2")
    \/ \E messageId \in {1, 2} : EditStart("p2", "u1", messageId, EditedText, 0)
    \/ EditSteps("p2")
    \/ \E messageId \in {1, 2} : ReactStart("p2", "u2", messageId, "like")
    \/ ReactFind("p2")
    \/ ReactSave("p2", "saved")
    \/ GetStart("p2", "u2", 1, 1)
    \/ GetFindChat("p2")
    \/ GetPrivacyCurrent("p2", "on")
    \/ GetPrivacyOther("p2", "on")
    \/ GetFind("p2")
    \/ GetUpdateMany("p2")
    \/ GetList("p2")

SpecSnapshot == InitEditKinds /\ [][NextSnapshot]_vars

\* The chat is between u1 and a third user; u2, connected on connection 2,
\* is not in it.  Connections join and leave the room of the chat while u1
\* sends, edits, deletes and reacts in it.
NextEavesdrop ==
    \/ \E s \in SocketIds, c \in RoomIds : JoinChat(s, c)
    \/ \E s \in SocketIds, c \in RoomIds : LeaveChat(s, c)
    \/ SendStart("p1", "u1", 1, PlainText, FALSE, None)
    \/ SendFindChat("p1")
    \/ SendPrivacy("p1", "on", "on")
    \/ SendSave("p1")
    \/ SendRefetch("p1")
    \/ SendUpdateChat("p1")
    \/ DeleteStart("p1", "u1", 1)
    \/ DeleteSteps("p1")
    \/ EditStart("p1", "u1", 1, EditedText, 0)
    \/ EditSteps("p1")
    \/ \E emoji \in Emojis : SocketReactStart("p1", 1, 1, emoji)
    \/ ReactFind("p1")
    \/ ReactSave("p1", "saved")
    \/ SocketReactFindChat("p1")

SpecEavesdrop == InitOutsider /\ [][NextEavesdrop]_vars

\* u2 is connected; u1 has sent one message that u2 has not seen.
InitMonotonic ==
    /\ sockets = {1}
    /\ nextSocket = 1
    /\ handshake = [s \in SocketIds |-> IF s = 1 THEN "u2" ELSE NoUserId]
    /\ rooms = [s \in SocketIds |->
                   IF s = 1 THEN {SockRoom(1), UserRoom("u2")} ELSE {}]
    /\ userSocketMap = {<<"u2", 1>>}
    /\ lastConnect = [u \in Users |-> IF u = "u2" THEN 1 ELSE None]
    /\ onlineSnapshot = [users |-> {"u2"}, to |-> {1}]
    /\ pc = [p \in Procs |-> "idle"]
    /\ loc = [p \in Procs |-> Idle]
    /\ emitLog = <<>>
    /\ responded = <<>>
    /\ ops = 0
    /\ showOnlineStatus = [u \in Users |-> TRUE]
    /\ chats = <<[users |-> <<"u1", "u2">>,
                  latestMessage |-> [set |-> TRUE, text |-> PlainText,
                                     sender |-> "u1"]]>>
    /\ messages = <<FirstMessage>>
    /\ preview = <<NoPreview>>
    /\ seenEval = <<NoEval>>

\* A send, an edit, a delete or a reaction toggle side by side with, before
\* or after a read of the chat by u2, while the connection of u2 joins and
\* leaves the room of the chat and closes.
NextMonotonic ==
    \/ \E s \in SocketIds : Disconnect(s)
    \/ JoinChat(1, 1)
    \/ LeaveChat(1, 1)
    \/ SendStart("p1", "u1", 1, PlainText, FALSE, None)
    \/ SendFindChat("p1")
    \/ \E b \in {"on", "off"} : SendPrivacy("p1", "on", b)
    \/ SendSave("p1")
    \/ SendRefetch("p1")
    \/ SendUpdateChat("p1")
    \/ DeleteStart("p1", "u1", 1)
    \/ DeleteSteps("p1")
    \/ EditStart("p1", "u1", 1, EditedText, 0)
    \/ EditSteps("p1")
    \/ ReactStart("p1", "u2", 1, "like")
    \/ ReactFind("p1")
    \/ ReactSave("p1", "saved")
    \/ GetStart("p2", "u2", 1, 1)
    \/ GetFindChat("p2")
    \/ \E a \in {"on", "off"} : GetPrivacyCurrent("p2", a)
    \/ GetPrivacyOther("p2", "on")
    \/ GetFind("p2")
    \/ GetUpdateMany("p2")
    \/ GetList("p2")

SpecMonotonic == InitMonotonic /\ [][NextMonotonic]_vars










(***************************************************************************)
(* Properties of the registry and of the presence broadcast.               *)
(***************************************************************************)
EntriesOf(m, u) == {e \in m : e[1] = u}

\* The step is a connection event carrying user id u.
ConnectsAs(u) == nextSocket' = nextSocket + 1 /\ handshake'[nextSocket'] = u

\* C5: the registry holds at most one connection id per user id, and a
\* connect carrying user id u on connection c makes lookup(u) = c, whatever
\* was registered for u before, and closes no connection.
C5_RegisterOverwrites ==
    [][ /\ \A u \in Users : Cardinality(EntriesOf(userSocketMap', u)) <= 1
        /\ \A u \in Users :
               ConnectsAs(u) =>
                   /\ EntriesOf(userSocketMap', u) = {<<u, nextSocket'>>}
                   /\ sockets \subseteq sockets' ]_vars

\* A user connected a second time while the first connection stays live,
\* and resolves to the second connection.
C5_Witness ==
    \E u \in Users :
        /\ handshake[1] = u /\ 1 \in sockets
        /\ lastConnect[u] = 2 /\ 2 \in sockets
        /\ getRecieverSocketId(u) = 2

\* C6: while the connection a user connected on last is live, the user
\* resolves to it and is in the presence snapshot, also after a superseded
\* connection of the same user has disconnected.
C6_LastConnectWins ==
    \A u \in Users :
        (lastConnect[u] # None /\ lastConnect[u] \in sockets) =>
            /\ getRecieverSocketId(u) = lastConnect[u]
            /\ u \in onlineSnapshot.users

\* C7: the snapshot broadcast last is the set of registered users whose
\* showOnlineStatus is not false; it holds no user without a live connection.
C7_PresenceFiltered ==
    /\ onlineSnapshot.users =
           {u \in Keys(userSocketMap) : showOnlineStatus[u] # FALSE}
    /\ \A u \in onlineSnapshot.users :
           \E s \in sockets : handshake[s] = u

\* C8: a step that changes the registry broadcasts the new key set to every
\* live connection in that same step, and between events the snapshot
\* broadcast last is the set of registered user ids.
C8_BroadcastWithMutation ==
    [][ /\ onlineSnapshot'.users = Keys(userSocketMap')
        /\ userSocketMap' # userSocketMap =>
               onlineSnapshot' = [users |-> Keys(userSocketMap'),
                                  to |-> sockets'] ]_vars

\* A user was registered and then unregistered by a disconnect, with other
\* connections still live to receive the snapshot.
C8_Witness ==
    \E u \in Users :
        /\ lastConnect[u] # None
        /\ u \notin Keys(userSocketMap)
        /\ sockets # {}
        /\ Keys(userSocketMap) # {}
        /\ onlineSnapshot = [users |-> Keys(userSocketMap), to |-> sockets]

(***************************************************************************)
(* Properties of chat creation.                                            *)
(***************************************************************************)
ChatsOfPair(a, b) ==
    {c \in ChatIds : {chats[c].users[i] : i \in 1..Len(chats[c].users)} = {a, b}}

\* C1: there is at most one Chat per unordered pair of users, and a request
\* answered "already exists" returns the chat of its pair.
C1_OneChatPerPair ==
    /\ \A a, b \in Users : a # b => Cardinality(ChatsOfPair(a, b)) <= 1
    /\ \A i \in DOMAIN responded :
           (responded[i].op = "createNewChat" /\ responded[i].status = 200
               /\ responded[i].by # responded[i].other) =>
               responded[i].id \in ChatsOfPair(responded[i].by, responded[i].other)

(***************************************************************************)
(* Properties of reaction toggles.                                         *)
(***************************************************************************)
OwnEntries(reactions, u) ==
    {reactions[i] : i \in {j \in DOMAIN reactions : reactions[j].userId = u}}

\* C2: toggles on one message are serialized.  When the save of a toggle by
\* user u completes, the reactions other users hold at that moment are all
\* still stored, and, u's own reactions not having changed since the toggle
\* read them, u's toggle is stored.
C2_TogglesSerialized ==
    [][ \A p \in Procs :
            (pc[p] = "react_save" /\ pc'[p] # "react_save") =>
                LET u == loc[p].userId
                    cur == messages[loc[p].messageId].reactions
                    new == messages'[loc[p].messageId].reactions
                IN  /\ \A i \in DOMAIN cur :
                           cur[i].userId # u =>
                               \E j \in DOMAIN new : new[j] = cur[i]
                    /\ OwnEntries(cur, u)
                           = OwnEntries(loc[p].existingReactions, u)
                       => OwnEntries(new, u)
                              = OwnEntries(loc[p].newReactions, u) ]_vars

(***************************************************************************)
(* Properties of sendMessage and its link preview.                         *)
(***************************************************************************)
EmittedAt(ev, m) == {i \in DOMAIN emitLog : emitLog[i].ev = ev /\ emitLog[i].id = m}

Answered201(log, m) ==
    \E k \in DOMAIN log :
        log[k].op = "sendMessage" /\ log[k].status = 201 /\ log[k].id = m

\* C3: no messageUpdated of a message is emitted before a newMessage of the
\* same message.
C3_NewMessageBeforeUpdated ==
    \A m \in MsgIds :
        \A i \in EmittedAt("messageUpdated", m) :
            \E j \in EmittedAt("newMessage", m) : j < i

\* C4: messageUpdated of a message is emitted only after its sendMessage was
\* answered 201, and a preview fetch that fails changes neither the stored
\* messages nor the responses.
C4_ResponseBeforePreview ==
    [][ /\ \A i \in DOMAIN emitLog' :
               emitLog'[i].ev = "messageUpdated" =>
                   Answered201(responded', emitLog'[i].id)
        /\ \A m \in MsgIds :
               (preview[m].st = "fetch" /\ preview'[m].st = "done") =>
                   UNCHANGED <<messages, responded>> ]_vars

\* The live connections registered for user u that have joined the room of
\* chat c.
ViewingConnections(u, c) ==
    {s \in sockets : <<u, s>> \in userSocketMap /\ ChatRoom(c) \in rooms[s]}

\* C10: the room check of sendMessage yields true exactly when the receiver
\* has a registered live connection joined to the room of the chat, whatever
\* the read-receipt flags are, and the message is saved with seen set to the
\* outcome of that check.
C10_SeenIffReceiverInRoom ==
    [][ \A p \in Procs :
            /\ (pc[p] = "send_privacy" /\ pc'[p] # "send_privacy") =>
                   (loc'[p].isReceiverInChatRoom
                       <=> ViewingConnections(loc[p].otherUserId,
                                              loc[p].chatId) # {})
            /\ (pc[p] = "send_save" /\ pc'[p] # "send_save") =>
                   (messages'[Len(messages')].seen
                       <=> loc[p].isReceiverInChatRoom) ]_vars

\* A message was saved seen, its receiver being in the room, although the
\* receiver's read receipts are off.
C10_Witness ==
    \E m \in MsgIds :
        /\ messages[m].seen
        /\ ~messages[m].seenAt
        /\ seenEval[m].b = "off"

(***************************************************************************)
(* Properties of the read-receipt gate.                                    *)
(***************************************************************************)
\* C9: a message has seenAt set only if the request that set it read both
\* participants' showReadReceipts as not off; a message marked seen by a
\* request that read a flag as off has no seenAt.
C9_SeenAtGated ==
    \A m \in MsgIds :
        messages[m].seenAt =>
            /\ seenEval[m] # NoEval
            /\ seenEval[m].a # "off"
            /\ seenEval[m].b # "off"

\* A message sent unseen got its seenAt from a later read of the chat, and
\* a message was marked seen without seenAt because a flag was off.
C9_Witness ==
    /\ \E i \in DOMAIN emitLog :
           /\ emitLog[i].ev = "newMessage"
           /\ ~emitLog[i].payload.seen
           /\ messages[emitLog[i].id].seenAt
    /\ \E k \in DOMAIN responded : responded[k].op = "getMessagesByChat"

(***************************************************************************)
(* Properties of the read receipt of sendMessage.                          *)
(***************************************************************************)
\* The events a step appends to the log.
Emitted == SubSeq(emitLog', Len(emitLog) + 1, Len(emitLog'))

\* C11: when sendMessage completes, it emits messagesSeen for the new
\* message exactly when the message was saved seen (the receiver was joined
\* to the room), neither participant's showReadReceipts was read as off and
\* the sender has a registered connection; the event is emitted once, to
\* the sender's registered connection only, and the message in the response
\* then has seen and seenAt set.
C11_SeenReceiptOfSend ==
    [][ \A p \in Procs :
            (pc[p] = "send_updateChat" /\ pc'[p] # "send_updateChat") =>
                LET m == loc[p].savedId
                    sender == loc[p].senderId
                    receipts == {i \in DOMAIN Emitted :
                                    Emitted[i].ev = "messagesSeen"}
                    due == /\ messages[m].seen
                           /\ seenEval[m] # NoEval
                           /\ seenEval[m].a # "off" /\ seenEval[m].b # "off"
                           /\ EntriesOf(userSocketMap, sender) # {}
                IN  IF due
                    THEN /\ Cardinality(receipts) = 1
                         /\ \A i \in receipts :
                                /\ Emitted[i].id = m
                                /\ Emitted[i].payload.messageIds = {m}
                                /\ \E e \in EntriesOf(userSocketMap, sender) :
                                       /\ Emitted[i].room = SockRoom(e[2])
                                       /\ Emitted[i].to = {e[2]} \cap sockets
                         /\ loc[p].finalMessage.seen
                         /\ loc[p].finalMessage.seenAt
                         /\ Answered201(responded', m)
                    ELSE receipts = {} ]_vars

\* A send was answered and its read receipt went to the sender's connection.
C11_Witness ==
    \E i \in DOMAIN emitLog :
        /\ emitLog[i].ev = "messagesSeen"
        /\ messages[emitLog[i].id].seenAt
        /\ Answered201(responded, emitLog[i].id)

(***************************************************************************)
(* Properties of the batch mark-seen of getMessagesByChat.                 *)
(***************************************************************************)
GetStates == {"get_findChat", "get_privacyCurrent", "get_privacyOther",
              "get_find", "get_updateMany", "get_list"}

\* The step completes the query of request p.
GetCompletes(p) == pc[p] = "get_list" /\ pc'[p] = "idle"

\* No step of the query of request p changes seen or seenAt of a message
\* authored by the requester or of a message of another chat.
KeepsOtherMessages(p) ==
    (pc[p] \in GetStates /\ pc'[p] # pc[p]) =>
        /\ DOMAIN messages' = DOMAIN messages
        /\ \A m \in MsgIds :
               (messages[m].sender = loc[p].userId
                   \/ messages[m].chatId # loc[p].chatId) =>
                   /\ messages'[m].seen = messages[m].seen
                   /\ messages'[m].seenAt = messages[m].seenAt

\* C12: when a participant's query of the message list completes, for any
\* page, every message of the chat not authored by the requester that was
\* unseen when the query started is seen; the requester's own messages and
\* the messages of other chats keep seen and seenAt.
C12_MarkSeenOnQuery ==
    [][ \A p \in Procs :
            /\ GetCompletes(p) =>
                   \A m \in loc[p].startUnseen : messages'[m].seen
            /\ KeepsOtherMessages(p) ]_vars

\* C12, amended: the same for a query of the first page; a query of a later
\* page marks nothing.
C12_MarkSeenOnFirstPage ==
    [][ \A p \in Procs :
            /\ (GetCompletes(p) /\ loc[p].page = 1) =>
                   \A m \in loc[p].startUnseen : messages'[m].seen
            /\ (pc[p] \in GetStates /\ pc'[p] # pc[p] /\ loc[p].page # 1) =>
                   messages' = messages
            /\ KeepsOtherMessages(p) ]_vars

\* u2 has read the first page of chat 1 with a read-receipt flag off: the
\* message of chat 1 is seen without seenAt, the message of chat 2 is not.
C12_Witness ==
    /\ \E k \in DOMAIN responded :
           /\ responded[k].op = "getMessagesByChat"
           /\ responded[k].status = 200
           /\ responded[k].by = "u2"
    /\ messages[1].seen /\ ~messages[1].seenAt
    /\ seenEval[1] # NoEval
    /\ (seenEval[1].a = "off" \/ seenEval[1].b = "off")
    /\ ~messages[2].seen

\* C13: the updateMany step of a batch emits at most one messagesSeen, only
\* when neither showReadReceipts was read as off and the other participant
\* has a registered connection, and the messageIds of the event are exactly
\* the messages whose seen this step changed from false to true.
C13_BatchReportsWhatItMarked ==
    [][ \A p \in Procs :
            (pc[p] = "get_updateMany" /\ pc'[p] # "get_updateMany") =>
                LET changed == {m \in MsgIds :
                                   ~messages[m].seen /\ messages'[m].seen}
                    events == {i \in DOMAIN Emitted :
                                  Emitted[i].ev = "messagesSeen"}
                IN  /\ Cardinality(events) <= 1
                    /\ events # {} =>
                           /\ loc[p].currentUserPrivacy # "off"
                           /\ loc[p].otherUserPrivacy # "off"
                           /\ EntriesOf(userSocketMap, loc[p].otherUserId) # {}
                    /\ \A i \in events :
                           Emitted[i].payload.messageIds = changed ]_vars

(***************************************************************************)
(* Properties of the reaction set.                                         *)
(***************************************************************************)
\* The positions of the reactions of user u.
PositionsOf(reactions, u) == {i \in DOMAIN reactions : reactions[i].userId = u}

\* C14: the reactions of a message hold at most one entry per user.
C14_OneReactionPerUser ==
    \A m \in MsgIds :
        \A u \in HandshakeIds :
            Cardinality(PositionsOf(messages[m].reactions, u)) <= 1

\* A user who held one emoji on a message toggled another one, and holds
\* the second only.
C14_Witness ==
    \E u \in Users, i \in DOMAIN emitLog :
        /\ emitLog[i].ev = "messageReaction"
        /\ \E j \in DOMAIN emitLog[i].payload.reactions :
               emitLog[i].payload.reactions[j] = [userId |-> u, emoji |-> "like"]
        /\ OwnEntries(messages[emitLog[i].id].reactions, u)
               = {[userId |-> u, emoji |-> "heart"]}
        /\ Cardinality(PositionsOf(messages[emitLog[i].id].reactions, u)) = 1

\* The reactions of the users other than u, in their order.
OthersOf(reactions, u) ==
    LET other(r) == r.userId # u IN SelectSeq(reactions, other)

\* The save of request p is applied to the reactions the request has read.
SavesFresh(p) ==
    /\ pc[p] = "react_save" /\ pc'[p] # "react_save"
    /\ messages[loc[p].messageId].reactions = loc[p].existingReactions
    /\ messages' # messages

\* C15: a toggle of emoji e by user u on a message where u does not hold e,
\* applied with no other toggle in between, leaves u with exactly the one
\* reaction e, leaves the reactions of the other users as they were, and the
\* event and the response carry the whole resulting reaction set.
C15_SingleToggleAdds ==
    [][ \A p \in Procs :
            (SavesFresh(p)
                /\ IndexOf(loc[p].existingReactions, loc[p].userId,
                           loc[p].emoji) = 0) =>
                LET u == loc[p].userId
                    m == loc[p].messageId
                    old == messages[m].reactions
                    new == messages'[m].reactions
                IN  /\ OwnEntries(new, u) = {[userId |-> u, emoji |-> loc[p].emoji]}
                    /\ Cardinality(PositionsOf(new, u)) = 1
                    /\ OthersOf(new, u) = OthersOf(old, u)
                    /\ Len(Emitted) = 1
                    /\ Emitted[1].ev = "messageReaction"
                    /\ Emitted[1].room = ChatRoom(messages[m].chatId)
                    /\ Emitted[1].payload = [messageId |-> m, reactions |-> new]
                    /\ loc[p].via = "http" =>
                           /\ Len(responded') = Len(responded) + 1
                           /\ responded'[Len(responded')].status = 200
                           /\ responded'[Len(responded')].reactions = new ]_vars

\* A user who held like on the message toggled heart, holds heart only, and
\* was answered with the stored set.
C15_Witness ==
    \E u \in Users, k \in DOMAIN responded :
        /\ responded[k].op = "addReaction" /\ responded[k].status = 200
        /\ responded[k].by = u
        /\ responded[k].reactions = messages[1].reactions
        /\ OwnEntries(messages[1].reactions, u)
               = {[userId |-> u, emoji |-> "heart"]}
        /\ \E i \in DOMAIN emitLog :
               /\ emitLog[i].ev = "messageReaction"
               /\ [userId |-> u, emoji |-> "like"]
                      \in OwnEntries(emitLog[i].payload.reactions, u)

(***************************************************************************)
(* Properties of successive toggles.                                       *)
(***************************************************************************)
AsSet(reactions) == {reactions[i] : i \in DOMAIN reactions}

Twice(r, u, e1, e2) == ToggleReaction(ToggleReaction(r, u, e1), u, e2)

\* The save of a toggle stores the toggle of the reactions it read.
SaveStoresToggle ==
    \A p \in Procs :
        SavesFresh(p) =>
            messages'[loc[p].messageId].reactions
                = ToggleReaction(messages[loc[p].messageId].reactions,
                                 loc[p].userId, loc[p].emoji)

\* On reactions r: toggling e twice by a user who does not hold e leaves the
\* user without reaction, and toggling e1 then another e2 leaves the user
\* with e2 alone.
TwiceTakesOff(r) ==
    \A u \in Users :
        /\ \A e \in Emojis :
               IndexOf(r, u, e) = 0 => PositionsOf(Twice(r, u, e, e), u) = {}
        /\ \A e1, e2 \in Emojis :
               e1 # e2 =>
                   /\ OwnEntries(Twice(r, u, e1, e2), u)
                          = {[userId |-> u, emoji |-> e2]}
                   /\ Cardinality(PositionsOf(Twice(r, u, e1, e2), u)) = 1

\* C16: two successive toggles of e by a user who did not hold e leave the
\* user with no reaction on the message; a toggle of e1 followed by a toggle
\* of a different e2 leaves the user with exactly e2.  Each save stores the
\* toggle of what was stored, so this is stated on the stored reactions.
C16_ToggleTwice ==
    [][ /\ SaveStoresToggle
        /\ TwiceTakesOff(messages[1].reactions)
        /\ TwiceTakesOff(messages'[1].reactions) ]_vars

\* A user toggled like twice in succession: the first toggle put it on, the
\* second took it off.
C16_Witness ==
    \E u \in Users :
        /\ Len(emitLog) >= 2
        /\ \E i \in DOMAIN emitLog :
               /\ emitLog[i].ev = "messageReaction"
               /\ emitLog[i].room = ChatRoom(1)
               /\ OwnEntries(emitLog[i].payload.reactions, u)
                      = {[userId |-> u, emoji |-> "like"]}
               /\ \E j \in DOMAIN emitLog :
                      /\ j > i
                      /\ emitLog[j].ev = "messageReaction"
                      /\ emitLog[j].room = ChatRoom(1)
                      /\ OwnEntries(emitLog[j].payload.reactions, u) = {}
        /\ PositionsOf(messages[1].reactions, u) = {}
        /\ ops = 2 /\ pc["p1"] = "idle"

\* On reactions r: toggling the same emoji twice gives back the set r.
TwiceRestores(r) ==
    \A u \in Users, e \in Emojis : AsSet(Twice(r, u, e, e)) = AsSet(r)

\* The user holds an emoji other than e in r.
HoldsOther(r, u, e) == \E i \in PositionsOf(r, u) : r[i].emoji # e

\* On reactions r: toggling the same emoji twice gives back the set r,
\* unless the user held another emoji, which the first toggle has replaced:
\* then the user is left without reaction.
TwiceRestoresUnlessReplaced(r) ==
    \A u \in Users, e \in Emojis :
        AsSet(Twice(r, u, e, e)) =
            IF HoldsOther(r, u, e) THEN AsSet(OthersOf(r, u)) ELSE AsSet(r)

\* C17: two successive toggles of the same emoji by the same user leave the
\* reaction set of the message as it was before the first, for every
\* initial reaction set.
C17_TwiceIsNoOp ==
    [][ /\ SaveStoresToggle
        /\ TwiceRestores(messages[1].reactions)
        /\ TwiceRestores(messages'[1].reactions) ]_vars

\* C17, amended: the same when the user held no reaction or held e; when
\* the user held a different emoji the two toggles leave the user with no
\* reaction and the other users' reactions as they were.
C17_TwiceIsNoOpUnlessReplaced ==
    [][ /\ SaveStoresToggle
        /\ TwiceRestoresUnlessReplaced(messages[1].reactions)
        /\ TwiceRestoresUnlessReplaced(messages'[1].reactions) ]_vars

\* A user who held like toggled like twice in succession: the first toggle
\* took it off, the second put it back.
C17_Witness ==
    \E u \in Users, i, j \in DOMAIN emitLog :
        /\ i < j
        /\ emitLog[i].ev = "messageReaction" /\ emitLog[i].room = ChatRoom(1)
        /\ emitLog[j].ev = "messageReaction" /\ emitLog[j].room = ChatRoom(1)
        /\ OwnEntries(emitLog[i].payload.reactions, u) = {}
        /\ OwnEntries(emitLog[j].payload.reactions, u)
               = {[userId |-> u, emoji |-> "like"]}
        /\ messages[1].reactions = emitLog[j].payload.reactions
        /\ ops = 2 /\ pc["p1"] = "idle"

(***************************************************************************)
(* Properties of deleteMessage.                                            *)
(***************************************************************************)
DeleteStates == {"delete_find", "delete_save", "delete_findChat",
                 "delete_updateChat"}

\* The save of the delete of request p is applied to the message as the
\* request has read it.
DeleteSavesFresh(p) ==
    /\ pc[p] = "delete_save" /\ pc'[p] = "delete_findChat"
    /\ messages[loc[p].messageId] = loc[p].message

\* C18: a delete is saved for the sender of the message only; applied to
\* the message as read, it leaves messageType deleted, text empty, no image
\* and no reactions, and keeps the record, its id, chat, sender and
\* createdAt, and every other message; no other step of the delete changes
\* a message.
C18_SoftDelete ==
    [][ \A p \in Procs :
            /\ pc[p] = "delete_save" =>
                   messages[loc[p].messageId].sender = loc[p].userId
            /\ DeleteSavesFresh(p) =>
                   LET m == loc[p].messageId
                   IN  /\ messages'[m].messageType = "deleted"
                       /\ messages'[m].text = NoText
                       /\ ~messages'[m].image
                       /\ messages'[m].reactions = <<>>
                       /\ DOMAIN messages' = DOMAIN messages
                       /\ messages'[m].chatId = messages[m].chatId
                       /\ messages'[m].sender = messages[m].sender
                       /\ messages'[m].createdAt = messages[m].createdAt
                       /\ \A n \in MsgIds \ {m} : messages'[n] = messages[n]
            /\ (pc[p] \in DeleteStates \ {"delete_save"} /\ pc'[p] # pc[p]) =>
                   messages' = messages ]_vars

\* The sender's delete of the first message was answered: the message is
\* still there, deleted and emptied, and the chat shows the sentinel.
C18_Witness ==
    /\ \E k \in DOMAIN responded :
           /\ responded[k].op = "deleteMessage"
           /\ responded[k].status = 200
           /\ responded[k].by = "u1"
    /\ Len(messages) = 1
    /\ messages[1].messageType = "deleted"
    /\ messages[1].text = NoText
    /\ messages[1].reactions = <<>>
    /\ messages[1].v = 1
    /\ messages[1].createdAt = 1
    /\ chats[1].latestMessage.text = DeletedText

\* C19: a deleted message holds no reaction.
C19_DeletedHasNoReactions ==
    \A m \in MsgIds :
        messages[m].messageType = "deleted" => messages[m].reactions = <<>>

(***************************************************************************)
(* Properties of a delete against edits.                                   *)
(***************************************************************************)
\* C20: a deleted message stays deleted, with empty text and no image; an
\* edit that reads a deleted message is answered 400 and ends; no
\* messageEdited is emitted for a message that is deleted.
C20_DeleteIsIrreversible ==
    [][ /\ \A m \in MsgIds :
               messages[m].messageType = "deleted" =>
                   /\ messages'[m].messageType = "deleted"
                   /\ messages'[m].text = NoText
                   /\ ~messages'[m].image
                   /\ \A i \in DOMAIN Emitted :
                          ~(Emitted[i].ev = "messageEdited" /\ Emitted[i].id = m)
        /\ \A p \in Procs :
               (/\ pc[p] = "edit_find" /\ pc'[p] # "edit_find"
                /\ loc[p].messageId \in MsgIds
                /\ messages[loc[p].messageId].messageType = "deleted"
                /\ messages[loc[p].messageId].sender = loc[p].userId) =>
                   /\ pc'[p] = "idle"
                   /\ responded'[Len(responded')].status = 400
                   /\ messages' = messages ]_vars

(***************************************************************************)
(* Properties of editMessage.                                              *)
(***************************************************************************)
\* The step is the message lookup of the edit of request p, on a message
\* that exists.
EditLooksUp(p) ==
    /\ pc[p] = "edit_find" /\ pc'[p] # "edit_find"
    /\ loc[p].messageId \in MsgIds

\* The step answers an edit with a rejection.
EditRejects ==
    /\ Len(responded') = Len(responded) + 1
    /\ responded'[Len(responded')].op = "editMessage"
    /\ responded'[Len(responded')].status # 200

\* C21: the edit of an existing message goes on to its save exactly when
\* the requester is the sender, the message read is not deleted, is not of
\* type image with empty text, and is at most 15 minutes old, 15 minutes
\* sharp included; the save sets isEdited and editedAt; a rejected edit
\* changes no message, no chat and emits nothing.
C21_EditPermitted ==
    [][ /\ \A p \in Procs :
               /\ EditLooksUp(p) =>
                      LET msg == messages[loc[p].messageId]
                      IN  pc'[p] = "edit_save" <=>
                              /\ msg.sender = loc[p].userId
                              /\ msg.messageType # "deleted"
                              /\ ~(msg.messageType = "image" /\ msg.text = NoText)
                              /\ loc[p].age <= 15 * 60 * 1000
               /\ (pc[p] = "edit_save" /\ pc'[p] # "edit_save") =>
                      /\ messages'[loc[p].messageId].isEdited
                      /\ messages'[loc[p].messageId].editedAt
                      /\ messages'[loc[p].messageId].text = Trim(loc[p].text)
        /\ EditRejects => UNCHANGED <<messages, chats, emitLog>> ]_vars

\* A message exactly 15 minutes old was edited by its sender.
C21_Witness ==
    \E p \in Procs :
        /\ pc[p] = "edit_findChat"
        /\ loc[p].age = 15 * 60 * 1000
        /\ messages[loc[p].messageId].isEdited
        /\ messages[loc[p].messageId].editedAt
        /\ messages[loc[p].messageId].text = EditedText

\* C22: no edit goes on to its save for a message that carries an image and
\* no text, whatever the type of the message.
C22_ImageOnlyNotEditable ==
    [][ \A p \in Procs :
            (/\ EditLooksUp(p)
             /\ messages[loc[p].messageId].image
             /\ messages[loc[p].messageId].text = NoText) =>
                /\ pc'[p] = "idle"
                /\ EditRejects ]_vars

(***************************************************************************)
(* Properties of the delivery legs.                                        *)
(***************************************************************************)
\* The direct room of the connection user u resolves to in the registry, as
\* a sequence of at most one room.
DirectRoomOf(u) ==
    IF EntriesOf(userSocketMap, u) = {} THEN <<>>
    ELSE <<SockRoom((CHOOSE e \in EntriesOf(userSocketMap, u) : TRUE)[2])>>

\* The rooms the events named ev of a sequence of events go to, in order.
RoomsOf(events, ev) ==
    LET named(x) == x.ev = ev
        sel == SelectSeq(events, named)
    IN  [i \in DOMAIN sel |-> sel[i].room]

DirectRoomHeld(s) == IF s = None THEN <<>> ELSE <<SockRoom(s)>>

LegsTo(ev, m, r) == {i \in EmittedAt(ev, m) : emitLog[i].room = r}

\* messageUpdated is emitted by the step of the preview task that stores
\* the preview, and by no other: to the room, to the receiver connection the
\* request held, and to the sender, each carrying the stored record with its
\* preview, and no newMessage with them.
PreviewRound ==
    \A m \in DOMAIN preview :
        (\E i \in DOMAIN Emitted :
             Emitted[i].ev = "messageUpdated" /\ Emitted[i].id = m) =>
            /\ preview[m].st = "update" /\ preview'[m].st = "done"
            /\ RoomsOf(Emitted, "messageUpdated")
                   = <<ChatRoom(messages[m].chatId)>>
                         \o DirectRoomHeld(preview[m].receiverSocketId)
                         \o DirectRoomOf(messages[m].sender)
            /\ \A i \in DOMAIN Emitted :
                   /\ Emitted[i].ev = "messageUpdated"
                   /\ Emitted[i].id = m
                   /\ Emitted[i].payload = messages'[m]
                   /\ Emitted[i].payload.linkPreview

\* The task of a message starts only for a text with a URL and no image,
\* stores a preview only after a fetch that returned one, emits nothing when
\* the fetch fails, and is over after its round.
PreviewTask ==
    \A m \in DOMAIN preview' :
        LET before == IF m \in DOMAIN preview THEN preview[m].st ELSE "none"
            after == preview'[m].st
        IN  /\ (after = "fetch" /\ before # "fetch") =>
                   /\ ~messages[m].image
                   /\ extractFirstUrl(messages[m].text) # ""
            /\ (after = "update" /\ before # "update") => before = "fetch"
            /\ (before = "fetch" /\ after = "done") =>
                   UNCHANGED <<emitLog, messages>>
            /\ before = "done" => after = "done"

RECURSIVE DirectRoomsOf(_)
DirectRoomsOf(users) ==
    IF users = <<>> THEN <<>>
    ELSE DirectRoomOf(Head(users)) \o DirectRoomsOf(Tail(users))

\* The connections that events of name ev in the sequence were delivered to.
ReachedBy(events, ev) ==
    UNION {events[i].to : i \in {j \in DOMAIN events : events[j].ev = ev}}

\* C25: a toggle that was saved emits messageReaction {messageId, reactions}
\* to the room of the chat and then to the connection of every participant
\* that resolves, through either entry point, so that every participant with
\* a registered live connection has received it when the toggle is over.
C25_ReactionLegs ==
    [][ \A p \in Procs :
            LET l == loc[p]
                users == chats[l.chatId].users
                saved == pc[p] = "react_save" /\ pc'[p] # "react_save"
                             /\ messages' # messages
                direct == pc[p] = "react_findChat" /\ pc'[p] # "react_findChat"
            IN  /\ saved =>
                       /\ Emitted # <<>>
                       /\ Emitted[1] = Emit("messageReaction", ChatRoom(l.chatId),
                                            l.messageId,
                                            [messageId |-> l.messageId,
                                             reactions |->
                                                 messages'[l.messageId].reactions])
                /\ (saved /\ pc'[p] = "idle") =>
                       /\ RoomsOf(Emitted, "messageReaction")
                              = <<ChatRoom(l.chatId)>> \o DirectRoomsOf(users)
                       /\ \A i \in 1..Len(users) :
                              \A e \in EntriesOf(userSocketMap, users[i]) :
                                  e[2] \in sockets =>
                                      e[2] \in ReachedBy(Emitted, "messageReaction")
                /\ direct =>
                       RoomsOf(Emitted, "messageReaction") = DirectRoomsOf(users) ]_vars

(***************************************************************************)
(* The messageDeleted event.                                               *)
(***************************************************************************)
Answered(op, status) ==
    {k \in DOMAIN responded : responded[k].op = op /\ responded[k].status = status}

\* C26: a delete emits messageDeleted when its save is applied and at no
\* other step, so a delete answered 200 has emitted it exactly once; the
\* event goes to the room of the chat and to no direct connection, and
\* carries the tombstone: messageType deleted, empty text, no image, no
\* reactions, with the id, chat, sender and seen state of the message.
C26_MessageDeletedOnce ==
    /\ [][ \A p \in Procs :
               /\ (pc[p] = "delete_save" /\ pc'[p] = "delete_findChat") =>
                      LET m == loc[p].messageId
                      IN  /\ Len(Emitted) = 1
                          /\ Emitted[1].ev = "messageDeleted"
                          /\ Emitted[1].id = m
                          /\ Emitted[1].room = ChatRoom(messages[m].chatId)
                          /\ Emitted[1].payload.messageId = m
                          /\ Emitted[1].payload.chatId = messages'[m].chatId
                          /\ Emitted[1].payload.sender = messages'[m].sender
                          /\ Emitted[1].payload.messageType = "deleted"
                          /\ Emitted[1].payload.text = NoText
                          /\ ~Emitted[1].payload.image
                          /\ Emitted[1].payload.reactions = <<>>
                          /\ Emitted[1].payload.seen = messages'[m].seen
                          /\ Emitted[1].payload.seenAt = messages'[m].seenAt
               /\ (pc'[p] # pc[p]
                       /\ ~(pc[p] = "delete_save" /\ pc'[p] = "delete_findChat")) =>
                      RoomsOf(Emitted, "messageDeleted") = <<>> ]_vars
    /\ [](/\ \A i \in DOMAIN emitLog :
                 emitLog[i].ev = "messageDeleted" =>
                     emitLog[i].room \in {ChatRoom(c) : c \in ChatIds}
          /\ Cardinality({i \in DOMAIN emitLog : emitLog[i].ev = "messageDeleted"})
                 = Cardinality(Answered("deleteMessage", 200))
                       + Cardinality({p \in Procs :
                                         pc[p] \in {"delete_findChat",
                                                    "delete_updateChat"}}))

\* The sender's delete was answered 200 and one messageDeleted, to the room
\* of the chat, is all that was emitted for it.
C26_Witness ==
    /\ Cardinality(Answered("deleteMessage", 200)) = 1
    /\ \A p \in Procs : pc[p] = "idle"
    /\ Cardinality(EmittedAt("messageDeleted", 1)) = 1
    /\ \A i \in EmittedAt("messageDeleted", 1) :
           /\ emitLog[i].room = ChatRoom(1)
           /\ emitLog[i].payload.messageType = "deleted"

(***************************************************************************)
(* The messageEdited event.                                                *)
(***************************************************************************)
\* The fields of the stored message that the payload of messageEdited
\* carries.
EditedRecord(m) ==
    [messageId |-> m, chatId |-> messages'[m].chatId, text |-> messages'[m].text,
     isEdited |-> messages'[m].isEdited, editedAt |-> messages'[m].editedAt,
     messageType |-> messages'[m].messageType,
     sender |-> messages'[m].sender, createdAt |-> messages'[m].createdAt,
     reactions |-> messages'[m].reactions, seen |-> messages'[m].seen,
     seenAt |-> messages'[m].seenAt, image |-> messages'[m].image,
     replyTo |-> messages'[m].replyTo,
     repliedMessage |-> messages'[m].repliedMessage]

EditEmitStates == {"edit_findChat", "edit_findLatest", "edit_updateChat"}

\* C27: an edit emits messageEdited with the edited record to the room of
\* the chat when its save is applied, and then to the connection of each
\* participant that resolves; it emits at no other step, so an edit that
\* is rejected emits none and an edit answered 200 has emitted one round.
C27_MessageEditedLegs ==
    /\ [][ /\ \A p \in Procs :
                  LET l == loc[p]
                  IN  /\ (pc[p] = "edit_save" /\ pc'[p] # "edit_save") =>
                             /\ Len(Emitted) = 1
                             /\ Emitted[1].ev = "messageEdited"
                             /\ Emitted[1].room = ChatRoom(messages[l.messageId].chatId)
                             /\ Emitted[1].id = l.messageId
                             /\ Emitted[1].payload = EditedRecord(l.messageId)
                      /\ (pc[p] = "edit_findChat" /\ pc'[p] # "edit_findChat") =>
                             /\ RoomsOf(Emitted, "messageEdited")
                                    = DirectRoomsOf(chats[l.chatId].users)
                             /\ \A i \in DOMAIN Emitted :
                                    /\ Emitted[i].ev = "messageEdited"
                                    /\ Emitted[i].id = l.messageId
                                    /\ Emitted[i].payload = EditedRecord(l.messageId)
                      /\ (pc'[p] # pc[p] /\ pc[p] \notin {"edit_save", "edit_findChat"}) =>
                             RoomsOf(Emitted, "messageEdited") = <<>>
           /\ EditRejects => RoomsOf(Emitted, "messageEdited") = <<>> ]_vars
    /\ [](Cardinality({i \in DOMAIN emitLog :
                          /\ emitLog[i].ev = "messageEdited"
                          /\ emitLog[i].room \in {ChatRoom(c) : c \in ChatIds}})
              = Cardinality(Answered("editMessage", 200))
                    + Cardinality({p \in Procs : pc[p] \in EditEmitStates}))

\* An edit was answered 200 after its round went to the room, where a
\* connection had joined, and to the connections of both participants.
C27_Witness ==
    /\ Cardinality(Answered("editMessage", 200)) = 1
    /\ Cardinality(EmittedAt("messageEdited", 1)) = 3
    /\ \A i \in EmittedAt("messageEdited", 1) : emitLog[i].to # {}
    /\ \E k \in DOMAIN responded : responded[k].op = "editMessage"
                                    /\ responded[k].status = 200
                                    /\ responded[k].by = "u1"

(***************************************************************************)
(* Typing indicators.                                                      *)
(***************************************************************************)
TypingEvents == {"userTyping", "userStoppedTyping"}

\* C28: a typing or stopTyping event from connection c for room r is
\* delivered as userTyping or userStoppedTyping {chatId, userId} to the
\* connections that are in room r at that moment, c left out: c does not
\* receive it, whether it is in the room or not, and no connection outside
\* the room does.
C28_TypingToOthersInRoom ==
    [][ \A i \in DOMAIN Emitted :
            Emitted[i].ev \in TypingEvents =>
                LET e == Emitted[i]
                IN  /\ Len(Emitted) = 1
                    /\ e.from \in sockets
                    /\ e.to = {c \in sockets : e.room \in rooms[c]} \ {e.from}
                    /\ e.from \notin e.to
                    /\ \A c \in SocketIds : e.room \notin rooms[c] => c \notin e.to
                    /\ DOMAIN e.payload = {"chatId", "userId"}
                    /\ e.room \in {ChatRoom(e.payload.chatId),
                                   UserRoom(e.payload.chatId)}
                    /\ e.payload.userId \in Users ]_vars

\* A connection that has joined the room of a chat sent typing while the
\* other connection was in the room too: the other connection got it.
C28_Witness ==
    \E i \in DOMAIN emitLog :
        /\ emitLog[i].ev = "userTyping"
        /\ emitLog[i].room = ChatRoom(1)
        /\ emitLog[i].room \in rooms[emitLog[i].from]
        /\ emitLog[i].to # {}
        /\ emitLog[i].from \notin emitLog[i].to

(***************************************************************************)
(* Targets that do not resolve.                                            *)
(***************************************************************************)
\* The next step of the handler of request p.
HandlerStep(p) ==
    \/ SendFindChat(p)
    \/ \E a, b \in PrivacyResults : SendPrivacy(p, a, b)
    \/ SendSave(p)
    \/ SendRefetch(p)
    \/ SendUpdateChat(p)
    \/ EditSteps(p)
    \/ ReactFind(p)
    \/ ReactSave(p, "saved")
    \/ SocketReactFindChat(p)

\* The first event emitted by the step goes to the room of chat c.
RoomLegFirst(ev, c) ==
    /\ Emitted # <<>>
    /\ Emitted[1].ev = ev
    /\ Emitted[1].room = ChatRoom(c)

\* C29: whoever is registered or not, and whatever connection closes while
\* the operation is in flight, a send, an edit and a reaction toggle go on
\* step by step, store their change, emit the leg to the room and are
\* answered with success; a leg to a connection that is gone reaches
\* nothing, and an event reaches live connections only.
C29_UnresolvedTargetsSkipped ==
    /\ [][ /\ \A i \in DOMAIN Emitted :
                  /\ Emitted[i].to \subseteq sockets'
                  /\ \A s \in SocketIds :
                         (Emitted[i].room = SockRoom(s) /\ s \notin sockets') =>
                             Emitted[i].to = {}
           /\ \A p \in Procs :
                  LET l == loc[p]
                  IN  /\ (pc[p] = "send_save" /\ pc'[p] # "send_save") =>
                             Len(messages') = Len(messages) + 1
                      /\ (pc[p] = "send_updateChat" /\ pc'[p] # "send_updateChat") =>
                             /\ RoomLegFirst("newMessage", l.chatId)
                             /\ l.savedId \in MsgIds
                      /\ (pc[p] = "edit_save" /\ pc'[p] # "edit_save") =>
                             /\ RoomLegFirst("messageEdited", l.chatId)
                             /\ messages'[l.messageId].text = Trim(l.text)
                      /\ (pc[p] = "react_save" /\ pc'[p] # "react_save") =>
                             /\ RoomLegFirst("messageReaction", l.chatId)
                             /\ messages'[l.messageId].reactions = l.newReactions ]_vars
    /\ [](/\ \A p \in Procs : pc[p] # "idle" => ENABLED HandlerStep(p)
          /\ \A k \in DOMAIN responded : responded[k].status \in {200, 201})

\* A send was answered 201 although the connection looked up for the
\* receiver had closed before the legs went out: its leg reached nothing.
C29_Witness ==
    /\ Answered("sendMessage", 201) # {}
    /\ \E i \in DOMAIN emitLog, s \in SocketIds :
           /\ emitLog[i].ev = "newMessage"
           /\ emitLog[i].room = SockRoom(s)
           /\ emitLog[i].to = {}
           /\ s \notin sockets

(***************************************************************************)
(* Requests that are turned down.                                          *)
(***************************************************************************)
ValidatedOps == {"sendMessage", "deleteMessage", "editMessage"}

\* The step answers a send, a delete or an edit with a client error.
Rejects ==
    /\ Len(responded') = Len(responded) + 1
    /\ responded'[Len(responded')].op \in ValidatedOps
    /\ responded'[Len(responded')].status \in {400, 401, 403, 404}

\* The states of a request in which it has stored and emitted nothing yet.
ValidationStates == {"idle", "send_findChat", "delete_find", "edit_find"}

NoSideEffect == UNCHANGED <<messages, chats, emitLog, preview>>

ParticipantsOf(c) == {chats[c].users[i] : i \in DOMAIN chats[c].users}

\* C31: every reaction on a message belongs to a participant of the chat of
\* the message.
C31_ReactionsByParticipants ==
    \A m \in MsgIds :
        \A i \in DOMAIN messages[m].reactions :
            messages[m].reactions[i].userId \in ParticipantsOf(messages[m].chatId)

(***************************************************************************)
(* Chat.latestMessage.                                                     *)
(***************************************************************************)
\* The message of chat c with the greatest creation time.
NewestOf(c) ==
    CHOOSE m \in MsgIds :
        /\ messages[m].chatId = c
        /\ \A n \in MsgIds :
               messages[n].chatId = c => messages[n].createdAt <= messages[m].createdAt

DeleteChatStates == {"delete_findChat", "delete_updateChat"}

\* C32: a delete changes latestMessage of the chat only when the message it
\* deletes is the latest message of the chat, and then to the sentinel
\* "Message deleted"; no step of a delete of an older message changes it.
C32_DeleteUpdatesLatestOnly ==
    [][ \A p \in Procs :
            (pc[p] \in DeleteStates /\ pc'[p] # pc[p]) =>
                LET l == loc[p]
                IN  /\ chats' # chats =>
                           /\ NewestOf(l.chatId) = l.messageId
                           /\ chats'[l.chatId].latestMessage.text = "Message deleted"
                    /\ (pc[p] \in DeleteChatStates
                            /\ NewestOf(l.chatId) # l.messageId) =>
                           chats' = chats ]_vars

EditChatStates == {"edit_findChat", "edit_findLatest", "edit_updateChat"}

C34_LatestMessageInSync ==
    (\A p \in Procs : pc[p] = "idle") =>
        \A c \in ChatIds :
            (\E m \in MsgIds : messages[m].chatId = c) =>
                LET m == NewestOf(c)
                IN  /\ chats[c].latestMessage.set
                    /\ chats[c].latestMessage.sender = messages[m].sender
                    /\ chats[c].latestMessage.text
                           = LatestMessageText(messages[m].text, messages[m].image,
                                               messages[m].replyTo)

(***************************************************************************)
(* The snapshot of a replied message.                                      *)
(***************************************************************************)
\* C35: the snapshot of a reply is taken from the target as the send reads
\* it, with the type image kept, the type deleted kept and every other type
\* turned into text; it is saved as taken, and no step of any operation
\* changes the repliedMessage or the replyTo of a message that is stored.
C35_SnapshotFrozen ==
    [][ /\ \A m \in MsgIds :
               /\ m \in DOMAIN messages'
               /\ messages'[m].repliedMessage = messages[m].repliedMessage
               /\ messages'[m].replyTo = messages[m].replyTo
        /\ \A p \in Procs :
               /\ (pc[p] = "send_reply" /\ pc'[p] # pc[p]) =>
                      LET t == messages[loc[p].replyTo]
                          snap == loc'[p].repliedMessage
                      IN  /\ snap.id = loc[p].replyTo
                          /\ snap.text = t.text
                          /\ snap.sender = t.sender
                          /\ snap.image = t.image
                          /\ snap.messageType \in {"text", "image", "deleted"}
                          /\ t.messageType = "image" => snap.messageType = "image"
                          /\ t.messageType = "deleted" => snap.messageType = "deleted"
                          /\ t.messageType \notin {"image", "deleted"} =>
                                 snap.messageType = "text"
               /\ (pc[p] = "send_save" /\ pc'[p] # pc[p]) =>
                      /\ messages'[Len(messages')].repliedMessage
                             = loc[p].repliedMessage
                      /\ messages'[Len(messages')].replyTo = loc[p].replyTo ]_vars

\* A reply to the first message was sent and the first message was deleted
\* afterwards: the reply still quotes the text that was there.
C35_Witness ==
    /\ Len(messages) = 3
    /\ messages[3].replyTo = 1
    /\ messages[3].repliedMessage.text = PlainText
    /\ messages[3].repliedMessage.messageType = "text"
    /\ messages[1].messageType = "deleted"
    /\ messages[1].text = NoText
    /\ \A p \in Procs : pc[p] = "idle"

(***************************************************************************)
(* Failures of the profile service.                                        *)
(***************************************************************************)
\* The lookup of a participant failed, or it answered with read receipts
\* on: either way the participant counts as showReadReceipts = true.
CountsAsOn(result) == result \in {"rejected", "on"}

\* C36: a privacy lookup that fails ends no request: the send goes on to
\* its save, emits newMessage and is answered 201, and the read goes on to
\* mark the unseen messages seen and is answered 200; a participant whose
\* lookup failed counts as showReadReceipts = true, so that seenAt is set
\* when the other participant allows it too.
C36_ProfileFailureIsolated ==
    [][ \A p \in Procs :
            LET l == loc[p]
            IN  /\ (pc[p] = "send_privacy" /\ pc'[p] # pc[p]) =>
                       /\ pc'[p] \in {"send_reply", "send_save"}
                       /\ responded' = responded
                /\ (pc[p] = "send_save" /\ pc'[p] # pc[p]) =>
                       /\ Len(messages') = Len(messages) + 1
                       /\ (CountsAsOn(l.senderPrivacy) /\ CountsAsOn(l.receiverPrivacy)) =>
                              messages'[Len(messages')].seenAt
                                  = messages'[Len(messages')].seen
                /\ (pc[p] = "send_updateChat" /\ pc'[p] # pc[p]) =>
                       /\ RoomLegFirst("newMessage", l.chatId)
                       /\ responded'[Len(responded')].status = 201
                /\ (pc[p] \in {"get_privacyCurrent", "get_privacyOther"}
                        /\ pc'[p] # pc[p]) =>
                       /\ pc'[p] \in {"get_privacyOther", "get_find", "get_list"}
                       /\ responded' = responded
                /\ (pc[p] = "get_updateMany" /\ pc'[p] # pc[p]) =>
                       \A m \in UnseenFor(l.chatId, l.userId) :
                           /\ messages'[m].seen
                           /\ (CountsAsOn(l.currentUserPrivacy)
                                   /\ CountsAsOn(l.otherUserPrivacy)) =>
                                  messages'[m].seenAt
                /\ (pc[p] = "get_list" /\ pc'[p] # pc[p]) =>
                       /\ responded'[Len(responded')].op = "getMessagesByChat"
                       /\ responded'[Len(responded')].status = 200 ]_vars

\* Both lookups of a read of the chat failed; the message was marked seen
\* with its seenAt and the read was answered 200.
C36_Witness ==
    /\ \E m \in MsgIds :
           /\ seenEval[m] = [a |-> "rejected", b |-> "rejected"]
           /\ messages[m].seen
           /\ messages[m].seenAt
    /\ Answered("getMessagesByChat", 200) # {}
    /\ Answered("sendMessage", 201) # {}

(***************************************************************************)
(* The receiver's leg at the moment of emission.                           *)
(***************************************************************************)
\* C37: when a send emits newMessage, the connection the registry resolves
\* for the receiver at that moment, if it is live, is sent the direct leg
\* and receives it.
C37_ReceiverLegAtEmission ==
    [][ \A p \in Procs :
            (pc[p] = "send_updateChat" /\ pc'[p] # "send_updateChat") =>
                \A e \in EntriesOf(userSocketMap, loc[p].otherUserId) :
                    e[2] \in sockets =>
                        \E i \in DOMAIN Emitted :
                            /\ Emitted[i].ev = "newMessage"
                            /\ Emitted[i].room = SockRoom(e[2])
                            /\ e[2] \in Emitted[i].to ]_vars

(***************************************************************************)
(* Who receives the events of a chat.                                      *)
(***************************************************************************)
ChatEvents == {"newMessage", "messageReaction", "messageEdited", "messageDeleted"}

\* C38: a newMessage, messageReaction, messageEdited or messageDeleted event
\* of a message is delivered only to connections whose user is a
\* participant of the chat of the message.
C38_EventsReachParticipantsOnly ==
    \A i \in DOMAIN emitLog :
        emitLog[i].ev \in ChatEvents =>
            \A s \in emitLog[i].to :
                handshake[s] \in ParticipantsOf(messages[emitLog[i].id].chatId)

(***************************************************************************)
(* seen and seenAt.                                                        *)
(***************************************************************************)
\* C39: no step takes seen of a stored message from true back to false, and
\* no step clears a seenAt that is set.
C39_SeenMonotonic ==
    [][ \A m \in MsgIds :
            /\ m \in DOMAIN messages'
            /\ messages[m].seen => messages'[m].seen
            /\ messages[m].seenAt => messages'[m].seenAt ]_vars

\* The read of the chat marked the message seen while its edit was between
\* its lookup and its save; the edit was saved and the message is still
\* seen, with its seenAt.
C39_Witness ==
    /\ messages[1].seen
    /\ messages[1].seenAt
    /\ messages[1].isEdited
    /\ pc["p1"] = "edit_findChat"
    /\ ~loc["p1"].message.seen

\* C40: a message that has seenAt set has seen = true.
C40_SeenAtImpliesSeen ==
    \A m \in MsgIds : messages[m].seenAt => messages[m].seen

\* One message was marked seen by a read without a seenAt, the read-receipt
\* flag being off, and another was saved seen with its seenAt by a send to
\* a receiver in the room.
C40_Witness ==
    /\ Len(messages) = 2
    /\ messages[1].seen /\ ~messages[1].seenAt
    /\ messages[2].seen /\ messages[2].seenAt
    /\ \A p \in Procs : pc[p] = "idle"

====
